---- MODULE Spec2Model ----
(***************************************************************************)
(* Model of the client-side anomaly detection of CHEMVIZ                   *)
(* (web-frontend/src/utils/anomalyDetection.js): calculateStatistics,      *)
(* detectAnomaly, analyzeDataset and getAnomalyTooltip, and of the table   *)
(* that shows it (web-frontend/src/components/DataTable.jsx).              *)
(*                                                                         *)
(* JavaScript values are records [k, n, d].  k is the kind: "fin" (a       *)
(* finite number, the exact rational n/d in lowest terms, d > 0), "inf"    *)
(* (+Infinity when n = 1, -Infinity when n = -1), "nan", "string", "null", *)
(* "undefined".  Arithmetic is exact up to the largest finite Number,      *)
(* beyond which a result is Infinity or -Infinity; floating-point rounding *)
(* and the sign of zero are not modelled.                                  *)
(*                                                                         *)
(* A function is called on arguments chosen initially from bounded sets:   *)
(* SpecStatistics, SpecDetect, SpecAnalyze and SpecTooltip are the         *)
(* specifications of the four functions (Spec is the union of the first    *)
(* three), SpecOrder, SpecColumn, SpecCross and SpecScenarioA call them on *)
(* other arguments, SpecCalls calls them in sequence.  SpecTable is a      *)
(* DataTable from its first render on, with one action for each event.     *)
(* SpecFinite analyses datasets of finite numbers and makes the tooltip of *)
(* a cell.  SpecAuth (AuthProvider, ProtectedRoute and the routes),        *)
(* SpecDatasetPage (loadDatasetDetails), SpecDeletion (the ConfirmModal of *)
(* Sidebar and DatasetPage) and SpecUploader (FileUploader) are the pages  *)
(* of the application, with one action for each event and each response.   *)
(***************************************************************************)

EXTENDS Integers, Sequences, FiniteSets, TLC

VARIABLES
    fn,          \* the function under call
    pc,          \* "ready": arguments chosen; "done": the call has returned
    values,      \* calculateStatistics: argument values
    statistics,  \* calculateStatistics: returned value
    value,       \* detectAnomaly: argument value
    stats,       \* detectAnomaly: argument stats
    anomaly,     \* detectAnomaly: returned value
    data,        \* analyzeDataset: argument data
    columns,     \* analyzeDataset: argument columns
    analysis,    \* analyzeDataset: returned value, or the exception thrown
    tooltip,     \* getAnomalyTooltip: returned value
    calls,       \* the calls that returned before the call under way
    currentPage,     \* DataTable: state currentPage
    sortConfig,      \* DataTable: state sortConfig
    showAnomalies,   \* DataTable: state showAnomalies
    hoveredCell,     \* DataTable: state hoveredCell
    anomalyAnalysis, \* DataTable: the value of the useMemo of lines 12-15
    memoDeps,        \* DataTable: the dependencies [data, columns] of that value
    recomputed,      \* DataTable: the last render ran the callback of the useMemo
    auth,            \* App: AuthProvider state, localStorage, location, page shown
    datasetPage,     \* DatasetPage: state and requests in flight
    deletion,        \* Sidebar and its page: ConfirmModal state and delete requests
    uploader         \* FileUploader: state and upload requests in flight

\* the state of a DataTable; its props are data and columns, and pc tells
\* whether its last render returned ("rendered") or threw ("crashed")
tableVars == <<currentPage, sortConfig, showAnomalies, hoveredCell, anomalyAnalysis,
               memoDeps, recomputed>>

\* the state of the pages of the application
appVars == <<auth, datasetPage, deletion, uploader>>

vars == <<fn, pc, values, statistics, value, stats, anomaly, data, columns, analysis,
          tooltip, calls, tableVars, appVars>>

----------------------------------------------------------------------------
(* Bounds *)

MaxLen == 4      \* longest values array given to calculateStatistics
MaxRows == 4     \* most rows of a dataset given to analyzeDataset
MaxVal == 2      \* largest finite number in a values array
MaxCells == 5    \* most rows of a dataset of one column
MaxNumber == 1000000  \* largest finite Number (Number.MAX_VALUE), scaled down
MaxCalls == 3    \* most calls in a sequence of calls

----------------------------------------------------------------------------
(* JavaScript values and Number arithmetic *)

RECURSIVE GCD(_, _)
GCD(a, b) == IF b = 0 THEN a ELSE GCD(b, a % b)

Abs(i) == IF i < 0 THEN -i ELSE i

\* the finite number n/d (d # 0) in lowest terms with a positive denominator
Rat(n, d) ==
    LET s == IF d < 0 THEN -1 ELSE 1
        g == GCD(Abs(n), Abs(d))
    IN [k |-> "fin", n |-> (s * n) \div g, d |-> Abs(d) \div g]

Fin(i) == [k |-> "fin", n |-> i, d |-> 1]
PosInf == [k |-> "inf", n |-> 1, d |-> 1]
NegInf == [k |-> "inf", n |-> -1, d |-> 1]
NaN == [k |-> "nan", n |-> 0, d |-> 1]
Str == [k |-> "string", n |-> 0, d |-> 1]
Null == [k |-> "null", n |-> 0, d |-> 1]
Undefined == [k |-> "undefined", n |-> 0, d |-> 1]

\* typeof v
TypeOf(v) ==
    CASE v.k \in {"fin", "inf", "nan"} -> "number"
      [] v.k = "string" -> "string"
      [] v.k = "null" -> "object"
      [] OTHER -> "undefined"

\* isNaN(v), for v of type number
IsNaN(v) == v.k = "nan"

\* -1, 0 or 1 for a number other than NaN
Sign(a) == IF a.n < 0 THEN -1 ELSE IF a.n > 0 THEN 1 ELSE 0

\* v converts to NaN: NaN itself, or undefined (an array read out of range)
NotNum(v) == v.k \in {"nan", "undefined"}

\* the Number an exact result x becomes: a finite result beyond the largest
\* finite Number overflows to Infinity or -Infinity
Overflow(x) ==
    IF x.k = "fin" /\ Abs(x.n) > MaxNumber * x.d
    THEN (IF x.n > 0 THEN PosInf ELSE NegInf)
    ELSE x

\* a + b
Add(a, b) ==
    IF NotNum(a) \/ NotNum(b) THEN NaN
    ELSE IF a.k = "fin" /\ b.k = "fin"
         THEN Overflow(Rat(a.n * b.d + b.n * a.d, a.d * b.d))
    ELSE IF a.k = "inf" /\ b.k = "inf" THEN (IF a.n = b.n THEN a ELSE NaN)
    ELSE IF a.k = "inf" THEN a ELSE b

\* -a
Neg(a) == IF NotNum(a) THEN NaN ELSE [a EXCEPT !.n = -a.n]

\* a - b
Sub(a, b) == Add(a, Neg(b))

\* a * b
Mul(a, b) ==
    IF NotNum(a) \/ NotNum(b) THEN NaN
    ELSE IF a.k = "fin" /\ b.k = "fin" THEN Overflow(Rat(a.n * b.n, a.d * b.d))
    ELSE IF Sign(a) * Sign(b) = 0 THEN NaN
    ELSE IF Sign(a) * Sign(b) > 0 THEN PosInf ELSE NegInf

\* a / b
Div(a, b) ==
    IF NotNum(a) \/ NotNum(b) THEN NaN
    ELSE IF a.k = "inf" /\ b.k = "inf" THEN NaN
    ELSE IF a.k = "inf" THEN (IF a.n * (IF Sign(b) < 0 THEN -1 ELSE 1) > 0 THEN PosInf ELSE NegInf)
    ELSE IF b.k = "inf" THEN Fin(0)
    ELSE IF b.n = 0 THEN (IF a.n = 0 THEN NaN ELSE IF a.n > 0 THEN PosInf ELSE NegInf)
    ELSE Overflow(Rat(a.n * b.d, a.d * b.n))

\* a < b
Lt(a, b) ==
    IF NotNum(a) \/ NotNum(b) THEN FALSE
    ELSE IF a.k = "fin" /\ b.k = "fin" THEN a.n * b.d < b.n * a.d
    ELSE IF a.k = "inf" THEN a.n = -1 /\ b # a
    ELSE b.n = 1

\* a > b
Gt(a, b) == Lt(b, a)

\* Math.ceil in place of Math.floor
CeilMul(n, p) == (n * p + 99) \div 100

\* Math.floor(n * p / 100) for an array length n: n * 0.25, n * 0.5 and n * 0.75
\* are exact in floating point
FloorMul(n, p) == (n * p) \div 100

----------------------------------------------------------------------------
(* calculateStatistics *)

\* the filter of line 12: typeof v === 'number' && !isNaN(v)
IsNumericValue(v) == TypeOf(v) = "number" /\ ~IsNaN(v)

\* the comparator of line 15: (a, b) => a - b
Compare(a, b) == Sub(a, b)

\* sorted s with x inserted after the elements the comparator does not put after it
RECURSIVE Insert(_, _)
Insert(s, x) ==
    IF s = <<>> THEN <<x>>
    ELSE IF Lt(Compare(x, Head(s)), Fin(0)) THEN <<x>> \o s
    ELSE <<Head(s)>> \o Insert(Tail(s), x)

\* [...s].sort((a, b) => a - b): a stable sort by the comparator
RECURSIVE Sort(_)
Sort(s) ==
    IF s = <<>> THEN <<>>
    ELSE Insert(Sort(SubSeq(s, 1, Len(s) - 1)), s[Len(s)])

\* s[i] of a JavaScript array (indices from 0): undefined out of range
At(s, i) == IF i + 1 \in DOMAIN s THEN s[i + 1] ELSE Undefined

\* s.reduce((a, b) => a + b, 0)
RECURSIVE SumNumbers(_)
SumNumbers(s) ==
    IF s = <<>> THEN Fin(0)
    ELSE Add(SumNumbers(SubSeq(s, 1, Len(s) - 1)), s[Len(s)])

\* line 25: q1 - 1.5 * iqr
LowerBound(q1, iqr) == Sub(q1, Mul(Rat(3, 2), iqr))
\* line 26: q3 + 1.5 * iqr
UpperBound(q3, iqr) == Add(q3, Mul(Rat(3, 2), iqr))
\* line 29: q1 - 3 * iqr
LowerExtreme(q1, iqr) == Sub(q1, Mul(Fin(3), iqr))
\* UpperExtreme with the sign of line 29 copied: q3 - 3 * iqr
UpperExtremeMinus(q3, iqr) == Sub(q3, Mul(Fin(3), iqr))

\* line 30: q3 + 3 * iqr
UpperExtreme(q3, iqr) == Add(q3, Mul(Fin(3), iqr))

calculateStatistics(vals) ==
    LET numericValues == SelectSeq(vals, IsNumericValue)
    IN  IF Len(numericValues) = 0 THEN Null
        ELSE
        LET sorted == Sort(numericValues)
            n == Len(sorted)
            q1 == At(sorted, FloorMul(n, 25))
            q3 == At(sorted, FloorMul(n, 75))
            iqr == Sub(q3, q1)
            median == At(sorted, FloorMul(n, 50))
            mean == Div(SumNumbers(numericValues), Fin(n))
            lowerBound == LowerBound(q1, iqr)
            upperBound == UpperBound(q3, iqr)
            lowerExtreme == LowerExtreme(q1, iqr)
            upperExtreme == UpperExtreme(q3, iqr)
        IN  [q1 |-> q1, q3 |-> q3, iqr |-> iqr, median |-> median, mean |-> mean,
             min |-> At(sorted, 0), max |-> At(sorted, n - 1),
             lowerBound |-> lowerBound, upperBound |-> upperBound,
             lowerExtreme |-> lowerExtreme, upperExtreme |-> upperExtreme,
             count |-> n]

----------------------------------------------------------------------------
(* detectAnomaly *)

\* !stats: calculateStatistics returns null or a statistics object
IsNullStats(s) == "k" \in DOMAIN s

\* NoAnomaly that keeps a type: {isAnomaly: false, type: 'low', severity: null}
NoAnomalyTyped == [isAnomaly |-> FALSE, type |-> "low", severity |-> "null"]

\* lines 56 and 75: { isAnomaly: false, type: null, severity: null }
NoAnomaly == [isAnomaly |-> FALSE, type |-> "null", severity |-> "null"]

\* detectAnomaly with the mild fences tested before the extreme ones
detectAnomalyMildFirst(val, st) ==
    IF IsNullStats(st) \/ TypeOf(val) # "number" \/ IsNaN(val) THEN NoAnomaly
    ELSE IF Lt(val, st.lowerBound)
        THEN [isAnomaly |-> TRUE, type |-> "low", severity |-> "mild"]
    ELSE IF Gt(val, st.upperBound)
        THEN [isAnomaly |-> TRUE, type |-> "high", severity |-> "mild"]
    ELSE IF Lt(val, st.lowerExtreme)
        THEN [isAnomaly |-> TRUE, type |-> "low", severity |-> "extreme"]
    ELSE IF Gt(val, st.upperExtreme)
        THEN [isAnomaly |-> TRUE, type |-> "high", severity |-> "extreme"]
    ELSE NoAnomaly

\* detectAnomaly with <= and >= in place of < and >
detectAnomalyInclusive(val, st) ==
    IF IsNullStats(st) \/ TypeOf(val) # "number" \/ IsNaN(val) THEN NoAnomaly
    ELSE IF Lt(val, st.lowerExtreme) \/ val = st.lowerExtreme
        THEN [isAnomaly |-> TRUE, type |-> "low", severity |-> "extreme"]
    ELSE IF Gt(val, st.upperExtreme) \/ val = st.upperExtreme
        THEN [isAnomaly |-> TRUE, type |-> "high", severity |-> "extreme"]
    ELSE IF Lt(val, st.lowerBound) \/ val = st.lowerBound
        THEN [isAnomaly |-> TRUE, type |-> "low", severity |-> "mild"]
    ELSE IF Gt(val, st.upperBound) \/ val = st.upperBound
        THEN [isAnomaly |-> TRUE, type |-> "high", severity |-> "mild"]
    ELSE NoAnomaly

detectAnomaly(val, st) ==
    IF IsNullStats(st) \/ TypeOf(val) # "number" \/ IsNaN(val) THEN NoAnomaly
    ELSE IF Lt(val, st.lowerExtreme)
        THEN [isAnomaly |-> TRUE, type |-> "low", severity |-> "extreme"]
    ELSE IF Gt(val, st.upperExtreme)
        THEN [isAnomaly |-> TRUE, type |-> "high", severity |-> "extreme"]
    ELSE IF Lt(val, st.lowerBound)
        THEN [isAnomaly |-> TRUE, type |-> "low", severity |-> "mild"]
    ELSE IF Gt(val, st.upperBound)
        THEN [isAnomaly |-> TRUE, type |-> "high", severity |-> "mild"]
    ELSE NoAnomaly

----------------------------------------------------------------------------
(* getAnomalyTooltip: the message is the sequence of its parts *)

\* Math.abs(x)
MathAbs(x) ==
    IF NotNum(x) THEN NaN
    ELSE IF x.k = "inf" THEN PosInf
    ELSE [x EXCEPT !.n = Abs(x.n)]

\* a literal part of a message
Text(str) == [t |-> "text", s |-> str, neg |-> FALSE, m |-> 0, digits |-> 0]

\* x.toFixed(digits): "NaN", "Infinity", "-Infinity", or the decimal numeral of
\* x rounded to the digits, m being its digits without the point; a negative x
\* keeps its sign
ToFixed(x, digits) ==
    IF NotNum(x) THEN [Text("NaN") EXCEPT !.t = "number"]
    ELSE IF x.k = "inf"
        THEN [Text(IF x.n > 0 THEN "Infinity" ELSE "-Infinity") EXCEPT !.t = "number"]
    ELSE [t |-> "number", s |-> "", neg |-> x.n < 0,
          m |-> (2 * Abs(x.n) * 10^digits + x.d) \div (2 * x.d), digits |-> digits]

\* line 124 with the two words exchanged
DirectionReversed(an) == IF an.type = "high" THEN "below" ELSE "above"

\* line 124
Direction(an) == IF an.type = "high" THEN "above" ELSE "below"

\* line 125
Bound(an, st) == IF an.type = "high" THEN st.upperBound ELSE st.lowerBound

\* line 126, before toFixed
Deviation(an, st, val) == MathAbs(Sub(val, Bound(an, st)))

\* line 127 with a zero mean replaced by a percentage of 0
PercentDiffGuarded(st, val) ==
    IF st.mean = Fin(0) THEN Fin(0)
    ELSE Mul(Div(MathAbs(Sub(val, st.mean)), st.mean), Fin(100))

\* line 127, before toFixed
PercentDiff(st, val) == Mul(Div(MathAbs(Sub(val, st.mean)), st.mean), Fin(100))

\* lines 121-133, for an anomaly object, a statistics object and a number
getAnomalyTooltip(an, st, val) ==
    IF ~an.isAnomaly THEN <<>>
    ELSE IF an.severity = "extreme"
        THEN <<Text("Extreme outlier! "), ToFixed(PercentDiff(st, val), 1), Text("% "),
               Text(Direction(an)), Text(" average (deviation: "),
               ToFixed(Deviation(an, st, val), 2), Text(")")>>
    ELSE <<Text("Outlier detected: "), ToFixed(PercentDiff(st, val), 1), Text("% "),
           Text(Direction(an)), Text(" average")>>

----------------------------------------------------------------------------
(* analyzeDataset *)

\* An argument that should be an array is [t, items]: t = "array" with its
\* items, or t = "undefined", "null" or "object" (a value with no array
\* methods) with no items.
Array(items) == [t |-> "array", items |-> items]
NotArray(t) == [t |-> t, items |-> <<>>]

Range(s) == {s[i] : i \in DOMAIN s}

\* row[col]: undefined when the row has no such key
Get(row, col) == IF col \in DOMAIN row THEN row[col] ELSE Undefined

\* data.map reading the key a of every row, whatever the column
ColumnValuesOfA(rows, col) == [i \in DOMAIN rows |-> Get(rows[i], "a")]

\* data.map(row => row[col])
ColumnValues(rows, col) == [i \in DOMAIN rows |-> Get(rows[i], col)]

\* the test of line 87: values.some(v => typeof v === 'number' && !isNaN(v))
SomeNumeric(vals) == \E i \in DOMAIN vals : TypeOf(vals[i]) = "number" /\ ~IsNaN(vals[i])

\* lines 98-102: the rows of the column that detectAnomaly reports
RECURSIVE CountAnomalies(_, _, _)
CountAnomalies(rows, col, st) ==
    IF rows = <<>> THEN 0
    ELSE CountAnomalies(SubSeq(rows, 1, Len(rows) - 1), col, st)
         + (IF detectAnomaly(Get(rows[Len(rows)], col), st).isAnomaly THEN 1 ELSE 0)

\* SumValues with the reducer (a, b) => a + 1: the keys are counted, not summed
CountValues(counts) == Cardinality(DOMAIN counts)

\* Object.values(counts).reduce((a, b) => a + b, 0)
RECURSIVE SumValues(_)
SumValues(counts) ==
    IF DOMAIN counts = {} THEN 0
    ELSE LET c == CHOOSE c \in DOMAIN counts : TRUE
         IN  counts[c] + SumValues([x \in DOMAIN counts \ {c} |-> counts[x]])

\* the TypeError of calling .filter or .map on a value that has no such method
TypeError ==
    [threw |-> TRUE, columnStats |-> <<>>, anomalyCounts |-> <<>>,
     numericColumns |-> <<>>, totalAnomalies |-> 0]

analyzeDataset(dat, cols) ==
    IF cols.t # "array" THEN TypeError
    ELSE IF cols.items # <<>> /\ dat.t # "array" THEN TypeError
    ELSE
    LET rows == dat.items
        IsNumericColumn(col) == SomeNumeric(ColumnValues(rows, col))
        numericColumns == SelectSeq(cols.items, IsNumericColumn)
        columnStats ==
            [col \in Range(numericColumns) |-> calculateStatistics(ColumnValues(rows, col))]
        anomalyCounts ==
            [col \in Range(numericColumns) |-> CountAnomalies(rows, col, columnStats[col])]
    IN  [threw |-> FALSE, columnStats |-> columnStats, anomalyCounts |-> anomalyCounts,
         numericColumns |-> numericColumns, totalAnomalies |-> SumValues(anomalyCounts)]

----------------------------------------------------------------------------
(* DataTable (components/DataTable.jsx) *)

\* line 9
rowsPerPage == 10

\* sortConfig.key null, and hoveredCell null
NoKey == ""
NoCell == [row |-> -1, col |-> ""]

\* a prop: an array, which is an object with an identity, or null or undefined
ArrayProp(ref, items) == [t |-> "array", items |-> items, ref |-> ref]
AbsentProp(t) == [t |-> t, items |-> <<>>, ref |-> t]
\* !data, !columns
IsAbsent(prop) == prop.t # "array"

\* the useMemo of lines 12-15 with the dependencies [data]
DataChanged(deps, dat, cols) == deps = <<>> \/ deps[1] # dat

\* the dependencies [data, columns] of line 15 differ from those of the last
\* run of the callback
DepsChanged(deps, dat, cols) == deps # <<dat, cols>>

\* lines 13-14
MemoCallback(dat, cols) ==
    IF IsAbsent(dat) \/ Len(dat.items) = 0 \/ IsAbsent(cols) THEN Null
    ELSE analyzeDataset(dat, cols)

\* aVal < bVal for cells that are numbers or equal strings
CellLess(a, b) == TypeOf(a) = "number" /\ TypeOf(b) = "number" /\ Lt(a, b)

\* the comparator of lines 21-27
RowCompare(a, b, sc) ==
    IF CellLess(Get(a, sc.key), Get(b, sc.key)) THEN (IF sc.direction = "asc" THEN -1 ELSE 1)
    ELSE IF CellLess(Get(b, sc.key), Get(a, sc.key)) THEN (IF sc.direction = "asc" THEN 1 ELSE -1)
    ELSE 0

RECURSIVE InsertRow(_, _, _)
InsertRow(s, x, sc) ==
    IF s = <<>> THEN <<x>>
    ELSE IF RowCompare(x, Head(s), sc) < 0 THEN <<x>> \o s
    ELSE <<Head(s)>> \o InsertRow(Tail(s), x, sc)

\* [...data].sort(comparator): a stable sort
RECURSIVE SortRows(_, _)
SortRows(rows, sc) ==
    IF rows = <<>> THEN <<>>
    ELSE InsertRow(SortRows(SubSeq(rows, 1, Len(rows) - 1), sc), rows[Len(rows)], sc)

\* lines 18-29, for data that is an array
sortedData(dat, sc) == IF sc.key = NoKey THEN dat.items ELSE SortRows(dat.items, sc)

\* line 32
totalPages(dat, sc) == (Len(sortedData(dat, sc)) + rowsPerPage - 1) \div rowsPerPage

\* a page that ends one row early
paginatedDataShort(dat, sc, page) ==
    LET sorted == sortedData(dat, sc)
        last == IF page * rowsPerPage - 1 < Len(sorted)
                THEN page * rowsPerPage - 1 ELSE Len(sorted)
    IN  SubSeq(sorted, (page - 1) * rowsPerPage + 1, last)

\* lines 33-36
paginatedData(dat, sc, page) ==
    LET sorted == sortedData(dat, sc)
        last == IF page * rowsPerPage < Len(sorted) THEN page * rowsPerPage ELSE Len(sorted)
    IN  SubSeq(sorted, (page - 1) * rowsPerPage + 1, last)

\* getCellAnomalyInfo returning null
NoInfo == [isAnomaly |-> FALSE, type |-> "null", severity |-> "null", tooltip |-> <<>>]

\* getCellAnomalyInfo without the test of showAnomalies
getCellAnomalyInfoAlways(show, an, row, col) ==
    IF IsNullStats(an) THEN NoInfo
    ELSE IF col \notin DOMAIN an.columnStats THEN NoInfo
    ELSE LET st == an.columnStats[col]
             cell == Get(row, col)
             found == detectAnomaly(cell, st)
         IN  IF ~found.isAnomaly THEN NoInfo
             ELSE [isAnomaly |-> TRUE, type |-> found.type, severity |-> found.severity,
                   tooltip |-> getAnomalyTooltip(found, st, cell)]

\* lines 51-64
getCellAnomalyInfo(show, an, row, col) ==
    IF ~show \/ IsNullStats(an) THEN NoInfo
    ELSE IF col \notin DOMAIN an.columnStats THEN NoInfo
    ELSE LET st == an.columnStats[col]
             cell == Get(row, col)
             found == detectAnomaly(cell, st)
         IN  IF ~found.isAnomaly THEN NoInfo
             ELSE [isAnomaly |-> TRUE, type |-> found.type, severity |-> found.severity,
                   tooltip |-> getAnomalyTooltip(found, st, cell)]

\* lines 67-73
getCellClass(info) ==
    IF ~info.isAnomaly THEN ""
    ELSE IF info.severity = "extreme"
        THEN (IF info.type = "high" THEN "anomaly-extreme-high" ELSE "anomaly-extreme-low")
    ELSE (IF info.type = "high" THEN "anomaly-mild-high" ELSE "anomaly-mild-low")

\* the render throws a TypeError: sortedData.length of line 32 with data null
\* or undefined, columns.map of line 108 with columns null or undefined
RenderThrows(dat, cols) == IsAbsent(dat) \/ IsAbsent(cols)

----------------------------------------------------------------------------
(* The pages of the application *)

NoAuth == [mounted |-> FALSE]

(* App (unnamed/part_003): AuthProvider, ProtectedRoute and the routes.  auth is
   [token, username: the state of AuthProvider; localStorage: its entries
   authToken and username; location: the path shown; loginPending: a login
   request of AuthPage is in flight; updatePending: the username of a profile
   update in flight, or null]. *)

\* null, undefined, and a string
NoValue == [k |-> "null", s |-> ""]
UndefinedValue == [k |-> "undefined", s |-> ""]
StringValue(str) == [k |-> "string", s |-> str]

\* what localStorage.setItem stores for a value: its conversion to a string
Stored(v) == IF v.k = "string" THEN v ELSE StringValue(v.k)

\* line 67: isAuthenticated: !!token
IsAuthenticated(tok) == tok.k = "string" /\ tok.s # ""

ProtectedPaths == {"/dashboard", "/profile", "/dataset/1"}
Paths == {"/login", "/", "/other"} \cup ProtectedPaths

\* a ProtectedRoute that renders its children whoever asks
ProtectedRouteOpen(isAuthenticated, path) == path

\* lines 74-82: the path shown for a protected path
ProtectedRoute(isAuthenticated, path) == IF ~isAuthenticated THEN "/login" ELSE path

\* lines 103-137: the path shown for a requested path; "/" and "/*" navigate to
\* /dashboard
Routed(path, tok) ==
    LET target == IF path \in ProtectedPaths \cup {"/login"} THEN path ELSE "/dashboard"
    IN  IF target \in ProtectedPaths
        THEN ProtectedRoute(IsAuthenticated(tok), target)
        ELSE target

\* the page of a path
PageAt(path) ==
    CASE path = "/login" -> "AuthPage"
      [] path = "/dashboard" -> "DashboardPage"
      [] path = "/profile" -> "ProfilePage"
      [] OTHER -> "DatasetPage"

\* the tokens and usernames the API returns, and what localStorage may hold
\* when the application is loaded
ApiTokens == {StringValue("t1"), StringValue("t2"), UndefinedValue}
ApiUsernames == {StringValue("u1"), StringValue("u2")}
NoDatasetPage == [mounted |-> FALSE]

(* DatasetPage (unnamed/part_000).  datasetPage is [id: the id of the route;
   dataset, datasetSummary, datasetData: the id of the dataset each state
   holds, or NoDataset for null; loading, error: lines 18-19; loads: the calls
   of loadDatasetDetails in the order they began, each [id, stage], its stage
   "summary" while getDatasetSummary is awaited, "data" while getDatasetData is
   awaited, "settled" after the finally block]. *)
NoDataset == 0
DatasetIds == {1, 2}
\* the calls of loadDatasetDetails of one visit of the page
MaxLoads == 3

\* lines 69-73: loadDatasetDetails begins for the id of the render
BeginLoad(page, id) ==
    [page EXCEPT !.id = id, !.loading = TRUE, !.error = FALSE,
                 !.loads = Append(@, [id |-> id, stage |-> "summary"])]
NoDeletion == [mounted |-> FALSE]

(* Deleting a dataset: Sidebar and ConfirmModal (unnamed/part_003),
   DashboardPage and DatasetPage (unnamed/part_000).  deletion is [page: the
   page mounted; route: the id of /dataset/:id, or NoDataset; sidebarModal:
   deleteModal of Sidebar; pageModal: deleteModal of DatasetPage; requests: the
   deleteDataset requests in flight, each [id; isSidebar and route: what the
   closure of confirmDelete holds; origin: the page that made it; mounted: that
   page is still mounted]]. *)
\* the deleteDataset requests in flight at a time
MaxDeletes == 2

\* { show: false, id: null, filename: '' }
ClosedModal == [show |-> FALSE, id |-> NoDataset, isSidebar |-> FALSE]
OpenModal(id, isSidebar) == [show |-> TRUE, id |-> id, isSidebar |-> isSidebar]

DeleteRequest(d, id, isSidebar) ==
    [id |-> id, isSidebar |-> isSidebar, route |-> d.route, origin |-> d.page,
     mounted |-> TRUE]

\* DashboardPage.handleQuickDelete, lines 36-39: the request
handleQuickDelete(d, id) ==
    [d EXCEPT !.requests = Append(@, DeleteRequest(d, id, TRUE))]

\* DatasetPage.handleSidebarDelete, lines 37-40
handleSidebarDelete(d, id) == [d EXCEPT !.pageModal = OpenModal(id, TRUE)]

\* the onDeleteDataset prop of the Sidebar of the page (DashboardPage line 58,
\* part_000 lines 133 and 152)
onDeleteDataset(d, id) ==
    IF d.page = "DashboardPage" THEN handleQuickDelete(d, id)
    ELSE handleSidebarDelete(d, id)

\* a delete icon that calls onDeleteDataset at once
handleDeleteClickAtOnce(d, id) == onDeleteDataset(d, id)

\* Sidebar.handleDeleteClick, lines 237-240
handleDeleteClick(d, id) == [d EXCEPT !.sidebarModal = OpenModal(id, FALSE)]

\* Sidebar.confirmDelete, lines 242-249
SidebarConfirmDelete(d) ==
    IF d.sidebarModal.id # NoDataset
    THEN [onDeleteDataset(d, d.sidebarModal.id) EXCEPT !.sidebarModal = ClosedModal]
    ELSE d

\* DatasetPage.handleDelete, lines 109-111
handleDelete(d) == [d EXCEPT !.pageModal = OpenModal(d.route, FALSE)]

\* DatasetPage.confirmDelete up to its await, lines 42-46
PageConfirmDelete(d) ==
    IF d.pageModal.id = NoDataset THEN d
    ELSE [d EXCEPT !.requests =
                       Append(@, DeleteRequest(d, d.pageModal.id, d.pageModal.isSidebar))]

\* onClose of a ConfirmModal: { ...deleteModal, show: false }
CloseModal(modal) == [modal EXCEPT !.show = FALSE]

\* another page is mounted: its modals are closed, and the requests of the page
\* before it have lost their page
Mount(d, page, route) ==
    [page |-> page, route |-> route, sidebarModal |-> ClosedModal,
     pageModal |-> ClosedModal,
     requests |-> [n \in DOMAIN d.requests |-> [d.requests[n] EXCEPT !.mounted = FALSE]]]

\* the sequence without its n-th element
Without(seq, n) == SubSeq(seq, 1, n - 1) \o SubSeq(seq, n + 1, Len(seq))

\* DatasetPage.confirmDelete after a successful await, lines 48-56 and 60-62;
\* for a request of DashboardPage, lines 40-44, nothing of the modals
AfterDelete(d, n) ==
    LET r == d.requests[n]
        rest == [d EXCEPT !.requests = Without(@, n)]
    IN  IF r.origin = "DashboardPage" THEN rest
        ELSE IF ~r.isSidebar \/ r.id = r.route
            THEN (IF rest.page = "DashboardPage" THEN rest
                  ELSE Mount(rest, "DashboardPage", NoDataset))
        ELSE IF r.mounted THEN [rest EXCEPT !.pageModal = ClosedModal]
        ELSE rest

\* after a failed await: DatasetPage lines 57-62, DashboardPage lines 45-48
AfterFailedDelete(d, n) ==
    LET r == d.requests[n]
        rest == [d EXCEPT !.requests = Without(@, n)]
    IN  IF r.origin = "DatasetPage" /\ r.mounted
        THEN [rest EXCEPT !.pageModal = ClosedModal] ELSE rest
NoUploader == [mounted |-> FALSE]

(* FileUploader (unnamed/part_005).  uploader is [uploading, progress: the
   state of lines 148-149; error: the last message given to onError; requests:
   the uploadDataset requests in flight, each [name: the name of the file, as
   the sequence of its characters; sent: the percentage last reported]]. *)
\* the uploadDataset requests in flight at a time
MaxUploads == 3

\* name.endsWith(suffix)
EndsWith(name, suffix) ==
    /\ Len(name) >= Len(suffix)
    /\ SubSeq(name, Len(name) - Len(suffix) + 1, Len(name)) = suffix

\* the files a drop or a selection gives: e.dataTransfer.files[0] or
\* e.target.files[0], undefined when there is none
NoFile == <<>>
FileNames ==
    {<<"a", ".", "c", "s", "v">>, <<"b", ".", "c", "s", "v">>,
     <<"a", ".", "t", "x", "t">>, <<"a", ".", "C", "S", "V">>, <<"c", "s", "v">>,
     NoFile}
Percentages == {0, 50, 100}

\* handleFile, lines 153-166, up to its await; a file with no name is no file
handleFile(u, file) ==
    IF file = NoFile THEN u
    ELSE IF ~EndsWith(file, <<".", "c", "s", "v">>)
        THEN [u EXCEPT !.error = "Please upload a CSV file"]
    ELSE [u EXCEPT !.uploading = TRUE, !.progress = 0, !.error = "",
                   !.requests = Append(@, [name |-> file, sent |-> 0])]

\* handleFile after its await, lines 167-177: onSuccess or onError, and the
\* finally block
handleFileSettles(u, n, failed) ==
    [u EXCEPT !.uploading = FALSE, !.progress = 0,
              !.error = IF failed THEN "Upload failed. Please try again." ELSE @,
              !.requests = Without(@, n)]

----------------------------------------------------------------------------
(* The inputs *)

RECURSIVE SeqsUpTo(_, _)
SeqsUpTo(S, n) ==
    IF n = 0 THEN {<<>>}
    ELSE LET shorter == SeqsUpTo(S, n - 1)
         IN  shorter \cup {Append(s, x) : s \in {t \in shorter : Len(t) = n - 1}, x \in S}

Numbers == {Fin(i) : i \in -1..MaxVal}
NonFinite == {NaN, PosInf, NegInf}
NonNumbers == {Str, Null, Undefined}
Values == Numbers \cup NonFinite \cup NonNumbers

\* statistics objects with arbitrary fences, as detectAnomaly accepts them
Fences == {Fin(-1), Fin(0), Fin(1), NaN}
StatsWith(le, lb, ub, ue) ==
    [q1 |-> Fin(0), q3 |-> Fin(0), iqr |-> Fin(0), median |-> Fin(0), mean |-> Fin(0),
     min |-> Fin(0), max |-> Fin(0),
     lowerBound |-> lb, upperBound |-> ub, lowerExtreme |-> le, upperExtreme |-> ue,
     count |-> 1]
StatsArgs ==
    {Null} \cup {StatsWith(le, lb, ub, ue) : le \in Fences, lb \in Fences, ub \in Fences, ue \in Fences}
ValueArgs == {Fin(i) : i \in -2..2} \cup NonFinite \cup NonNumbers

\* datasets of rows with the keys a, b and c; c holds text in every row
Rows == [a : {Fin(0), Fin(1), PosInf}, b : {Fin(0), Fin(1), NaN}, c : {Str}]
DataArgs == {Array(r) : r \in SeqsUpTo(Rows, MaxRows)} \cup {NotArray("null"), NotArray("object")}
\* lists of unique column names; no row has a key d
ColumnsArgs ==
    {Array(c) : c \in {<<>>, <<"c", "b">>, <<"a", "b", "c">>, <<"b", "d", "a">>}}
        \cup {NotArray("undefined")}

\* datasets with the one column a: a row holds a cell under the key a, or has
\* no key a
ColumnCells == {Fin(0), Fin(1), PosInf, NaN, Str, Null}
ColumnRows == {[a |-> v] : v \in ColumnCells} \cup {[c |-> Str]}
ColumnDataArgs == {Array(r) : r \in SeqsUpTo(ColumnRows, MaxCells)}

\* values arrays with numbers of the largest magnitude: their sums overflow
LargeValues == {Fin(MaxNumber), Fin(-MaxNumber), Fin(1), Str}

\* the arrays that hold the elements of s in another order
Reorderings(s) == {[i \in DOMAIN s |-> s[f[i]]] : f \in Permutations(DOMAIN s)}

\* the arguments of getAnomalyTooltip: any result of detectAnomaly, statistics
\* with different means and mild fences, and numbers
AnomalyArgs ==
    {NoAnomaly}
        \cup {[isAnomaly |-> TRUE, type |-> ty, severity |-> sev] :
                  ty \in {"low", "high"}, sev \in {"mild", "extreme"}}
TooltipStatsArgs ==
    {[StatsWith(Fin(-3), lb, ub, Fin(3)) EXCEPT !.mean = m] :
        lb \in {Fin(-1), Fin(0)}, ub \in {Fin(1), Rat(3, 2)},
        m \in {Fin(-2), Fin(0), Fin(2), Fin(3)}}
TooltipValueArgs == {Fin(-2), Fin(0), Fin(1), Fin(5), PosInf, NegInf}

\* Scenario A: the values of the column, and the datasets of one column a that
\* hold them in some order
ScenarioA == <<Fin(10), Fin(12), Fin(11), Fin(13), Fin(100)>>
ScenarioADataArgs ==
    {Array([i \in DOMAIN p |-> [a |-> p[i]]]) : p \in Reorderings(ScenarioA)}

\* datasets of rows with the two keys a and b, and the lists of their names
CrossRows == [a : {Fin(0), Fin(1)}, b : {Fin(0), Fin(1), Str}]
CrossDataArgs == {Array(r) : r \in SeqsUpTo(CrossRows, MaxRows)}
CrossColumnsArgs == {Array(c) : c \in {<<"a">>, <<"b">>, <<"a", "b">>, <<"b", "a">>}}

\* datasets of finite numbers in the one column a, and one of nine rows whose
\* mean lies far above its quartiles
FiniteCells == {Fin(-2), Fin(0), Fin(1), Fin(3)}
FiniteRows == {[a |-> v] : v \in FiniteCells}
SkewedRows == [i \in 1..9 |-> [a |-> Fin(<<0, 1000, 0, 0, 1, 0, 0, 0, 0>>[i])]]
FiniteDataArgs == {Array(r) : r \in SeqsUpTo(FiniteRows, MaxCells)} \cup {Array(SkewedRows)}

\* the props of a DataTable: datasets with a numeric column a and a text column
\* b, of no row, of five rows (twice, as two arrays of equal content) and of
\* twelve rows, which fill two pages; lists of column names; null and undefined
RowsOf(numbers) == [i \in DOMAIN numbers |-> [a |-> Fin(numbers[i]), b |-> Str]]
SmallRows == RowsOf(<<10, 12, 11, 13, 100>>)
LargeRows == RowsOf(<<12, 11, 13, 17, 100, 11, 12, 13, 12, 11, 12, -80>>)
DataProps ==
    {AbsentProp("null"), AbsentProp("undefined"), ArrayProp("empty", <<>>),
     ArrayProp("small", SmallRows), ArrayProp("small2", SmallRows),
     ArrayProp("large", LargeRows)}
ColumnsProps ==
    {AbsentProp("undefined"), ArrayProp("none", <<>>), ArrayProp("b", <<"b">>),
     ArrayProp("ab", <<"a", "b">>), ArrayProp("ab2", <<"a", "b">>)}

\* what the callback of useMemo returns for the props above
MemoResults == [props \in DataProps \X ColumnsProps |-> MemoCallback(props[1], props[2])]

\* the arguments of the calls of a sequence of calls
SomeValues == SeqsUpTo({Fin(0), Fin(2)}, 2)
SomeStats == {Null, StatsWith(Fin(-1), Fin(0), Fin(1), Fin(1))}
SomeData ==
    {Array(<<>>),
     Array(<<[a |-> Fin(0), b |-> Fin(1), c |-> Str], [a |-> Fin(1), b |-> NaN, c |-> Str]>>)}
\* the function and the arguments of one call; the arguments of the other
\* functions are unset
CallArguments ==
    {[fn |-> "calculateStatistics", values |-> v, value |-> Undefined, stats |-> Null,
      data |-> Array(<<>>), columns |-> Array(<<>>)] : v \in SomeValues}
    \cup {[fn |-> "detectAnomaly", values |-> <<>>, value |-> v, stats |-> st,
           data |-> Array(<<>>), columns |-> Array(<<>>)] :
               v \in {Fin(0), Fin(2)}, st \in SomeStats}
    \cup {[fn |-> "analyzeDataset", values |-> <<>>, value |-> Undefined, stats |-> Null,
           data |-> d, columns |-> Array(<<"b", "a">>)] : d \in SomeData}

----------------------------------------------------------------------------
(* The calls: the arguments are chosen initially, and one step makes the call *)

NoStatisticsCall == values = <<>> /\ statistics = Null
NoDetectCall == value = Undefined /\ stats = Null /\ anomaly = NoAnomaly
NoAnalyzeCall == data = Array(<<>>) /\ columns = Array(<<>>) /\ analysis = Null
NoTooltipCall == tooltip = <<>>
NoEarlierCalls == calls = <<>>
\* the pages of the application are not mounted
NoApp ==
    /\ auth = NoAuth /\ datasetPage = NoDatasetPage
    /\ deletion = NoDeletion /\ uploader = NoUploader

\* no DataTable is mounted: the state is that of lines 5-8
NoTable ==
    /\ currentPage = 1 /\ sortConfig = [key |-> NoKey, direction |-> "asc"]
    /\ showAnomalies = TRUE /\ hoveredCell = NoCell
    /\ anomalyAnalysis = Null /\ memoDeps = <<>> /\ recomputed = FALSE

InitStatistics ==
    /\ fn = "calculateStatistics" /\ pc = "ready"
    /\ values \in SeqsUpTo(Values, MaxLen) /\ statistics = Null
    /\ NoDetectCall /\ NoAnalyzeCall /\ NoTooltipCall /\ NoEarlierCalls /\ NoTable /\ NoApp

InitDetect ==
    /\ fn = "detectAnomaly" /\ pc = "ready"
    /\ value \in ValueArgs /\ stats \in StatsArgs /\ anomaly = NoAnomaly
    /\ NoStatisticsCall /\ NoAnalyzeCall /\ NoTooltipCall /\ NoEarlierCalls /\ NoTable /\ NoApp

InitAnalyze ==
    /\ fn = "analyzeDataset" /\ pc = "ready"
    /\ data \in DataArgs /\ columns \in ColumnsArgs /\ analysis = Null
    /\ NoStatisticsCall /\ NoDetectCall /\ NoTooltipCall /\ NoEarlierCalls /\ NoTable /\ NoApp

InitColumn ==
    /\ fn = "analyzeDataset" /\ pc = "ready"
    /\ data \in ColumnDataArgs /\ columns = Array(<<"a">>) /\ analysis = Null
    /\ NoStatisticsCall /\ NoDetectCall /\ NoTooltipCall /\ NoEarlierCalls /\ NoTable /\ NoApp

InitFinite ==
    /\ fn = "analyzeDataset" /\ pc = "ready"
    /\ data \in FiniteDataArgs /\ columns = Array(<<"a">>) /\ analysis = Null
    /\ NoStatisticsCall /\ NoDetectCall /\ NoTooltipCall /\ NoEarlierCalls /\ NoTable /\ NoApp

InitOrder ==
    /\ fn = "calculateStatistics" /\ pc = "ready"
    /\ values \in SeqsUpTo(LargeValues, MaxLen) /\ statistics = Null
    /\ NoDetectCall /\ NoAnalyzeCall /\ NoTooltipCall /\ NoEarlierCalls /\ NoTable /\ NoApp

\* a sequence of calls starts with any of the three functions, with any arguments
InitCalls ==
    /\ pc = "ready"
    /\ \E a \in CallArguments :
           /\ fn = a.fn /\ values = a.values /\ value = a.value /\ stats = a.stats
           /\ data = a.data /\ columns = a.columns
    /\ statistics = Null /\ anomaly = NoAnomaly /\ analysis = Null
    /\ NoTooltipCall /\ NoEarlierCalls /\ NoTable /\ NoApp

InitCross ==
    /\ fn = "analyzeDataset" /\ pc = "ready"
    /\ data \in CrossDataArgs /\ columns \in CrossColumnsArgs /\ analysis = Null
    /\ NoStatisticsCall /\ NoDetectCall /\ NoTooltipCall /\ NoEarlierCalls /\ NoTable /\ NoApp

InitScenarioA ==
    /\ fn = "analyzeDataset" /\ pc = "ready"
    /\ data \in ScenarioADataArgs /\ columns = Array(<<"a">>) /\ analysis = Null
    /\ NoStatisticsCall /\ NoDetectCall /\ NoTooltipCall /\ NoEarlierCalls /\ NoTable /\ NoApp

InitTooltip ==
    /\ fn = "getAnomalyTooltip" /\ pc = "ready"
    /\ anomaly \in AnomalyArgs /\ stats \in TooltipStatsArgs /\ value \in TooltipValueArgs
    /\ tooltip = <<>>
    /\ NoStatisticsCall /\ NoAnalyzeCall /\ NoEarlierCalls /\ NoTable /\ NoApp

Init == InitStatistics \/ InitDetect \/ InitAnalyze

\* calculateStatistics sorting the array it is given instead of a copy
CallCalculateStatisticsInPlace ==
    /\ pc = "ready" /\ fn = "calculateStatistics"
    /\ statistics' = calculateStatistics(values)
    /\ values' = Sort(values)
    /\ pc' = "done"
    /\ UNCHANGED <<fn, value, stats, anomaly, data, columns, analysis, tooltip, calls, tableVars, appVars>>

CallCalculateStatistics ==
    /\ pc = "ready" /\ fn = "calculateStatistics"
    /\ statistics' = calculateStatistics(values)
    /\ pc' = "done"
    /\ UNCHANGED <<fn, values, value, stats, anomaly, data, columns, analysis,
                   tooltip, calls, tableVars, appVars>>

CallDetectAnomaly ==
    /\ pc = "ready" /\ fn = "detectAnomaly"
    /\ anomaly' = detectAnomaly(value, stats)
    /\ pc' = "done"
    /\ UNCHANGED <<fn, values, statistics, value, stats, data, columns, analysis,
                   tooltip, calls, tableVars, appVars>>

CallAnalyzeDataset ==
    /\ pc = "ready" /\ fn = "analyzeDataset"
    /\ analysis' = analyzeDataset(data, columns)
    /\ pc' = "done"
    /\ UNCHANGED <<fn, values, statistics, value, stats, anomaly, data, columns,
                   tooltip, calls, tableVars, appVars>>

CallGetAnomalyTooltip ==
    /\ pc = "ready" /\ fn = "getAnomalyTooltip"
    /\ tooltip' = getAnomalyTooltip(anomaly, stats, value)
    /\ pc' = "done"
    /\ UNCHANGED <<fn, values, statistics, value, stats, anomaly, data, columns, analysis,
                   calls, tableVars, appVars>>

\* DataTable.jsx lines 51-64 for a cell of the analysed data, with highlighting
\* on: the value, its column's statistics, the classification and the tooltip
CallGetCellAnomalyInfo ==
    /\ fn = "analyzeDataset" /\ pc = "done" /\ ~analysis.threw
    /\ \E i \in DOMAIN data.items, col \in Range(columns.items) :
          LET info == getCellAnomalyInfo(TRUE, analysis, data.items[i], col)
          IN  /\ value' = Get(data.items[i], col)
              /\ stats' = IF col \in DOMAIN analysis.columnStats
                              THEN analysis.columnStats[col] ELSE Null
              /\ anomaly' = [isAnomaly |-> info.isAnomaly, type |-> info.type,
                             severity |-> info.severity]
              /\ tooltip' = info.tooltip
    /\ pc' = "described"
    /\ UNCHANGED <<fn, values, statistics, data, columns, analysis, calls, tableVars,
                   appVars>>

\* the call that has returned: its function, its arguments as they are after
\* the call, and its result
CurrentCall ==
    [fn |-> fn, args |-> <<values, value, stats, data, columns>>,
     result |-> <<statistics, anomaly, analysis>>]

\* the caller goes on to its next call (analyzeDataset lines 94 and 100, DataTable
\* line 58): any of the three functions, with any arguments
AnotherCall ==
    /\ pc = "done" /\ Len(calls) + 1 < MaxCalls
    /\ calls' = Append(calls, CurrentCall)
    /\ pc' = "ready"
    /\ \E a \in CallArguments :
           /\ fn' = a.fn /\ values' = a.values /\ value' = a.value /\ stats' = a.stats
           /\ data' = a.data /\ columns' = a.columns
    /\ statistics' = Null /\ anomaly' = NoAnomaly /\ analysis' = Null
    /\ UNCHANGED <<tooltip, tableVars, appVars>>

Next == CallCalculateStatistics \/ CallDetectAnomaly \/ CallAnalyzeDataset

----------------------------------------------------------------------------
(* DataTable: the state after the first render, and one action for each event, *)
(* which ends with the render the event causes                                *)

\* the functions other than DataTable are not under call
NoFunctionCall ==
    /\ NoStatisticsCall /\ NoDetectCall /\ analysis = Null
    /\ NoTooltipCall /\ NoEarlierCalls /\ NoApp

\* the first render, lines 5-15: the state of lines 5-8, and the useMemo runs
\* its callback
InitTable ==
    /\ fn = "DataTable"
    /\ data \in DataProps /\ columns \in ColumnsProps
    /\ currentPage = 1 /\ sortConfig = [key |-> NoKey, direction |-> "asc"]
    /\ showAnomalies = TRUE /\ hoveredCell = NoCell
    /\ anomalyAnalysis = MemoCallback(data, columns)
    /\ memoDeps = <<data, columns>> /\ recomputed = TRUE
    /\ pc = IF RenderThrows(data, columns) THEN "crashed" ELSE "rendered"
    /\ NoFunctionCall

\* a render with the props and the state of the next state: the useMemo of
\* lines 12-15 runs its callback if a dependency changed, and the render
\* returns or throws
Render ==
    /\ recomputed' = DepsChanged(memoDeps, data', columns')
    /\ anomalyAnalysis' =
           IF recomputed' THEN MemoResults[<<data', columns'>>] ELSE anomalyAnalysis
    /\ memoDeps' = IF recomputed' THEN <<data', columns'>> ELSE memoDeps
    /\ pc' = IF RenderThrows(data', columns') THEN "crashed" ELSE "rendered"
    /\ UNCHANGED <<fn, values, statistics, value, stats, anomaly, analysis, tooltip, calls,
                   appVars>>

\* the table is on screen
Mounted == fn = "DataTable" /\ pc = "rendered"

\* the parent renders the table with other props (DatasetPage lines 205-208)
ReplaceProps ==
    /\ Mounted
    /\ data' \in DataProps /\ columns' \in ColumnsProps
    /\ <<data', columns'>> # <<data, columns>>
    /\ UNCHANGED <<currentPage, sortConfig, showAnomalies, hoveredCell>>
    /\ Render

\* a click on a column header: handleSort, lines 38-43
ClickHeader ==
    /\ Mounted
    /\ \E key \in Range(columns.items) :
           sortConfig' =
               [key |-> key,
                direction |-> IF sortConfig.key = key /\ sortConfig.direction = "asc"
                              THEN "desc" ELSE "asc"]
    /\ UNCHANGED <<data, columns, currentPage, showAnomalies, hoveredCell>>
    /\ Render

\* a click on Previous, lines 173-179
ClickPrevious ==
    /\ Mounted
    /\ totalPages(data, sortConfig) > 1 /\ currentPage # 1
    /\ currentPage' = IF currentPage - 1 > 1 THEN currentPage - 1 ELSE 1
    /\ UNCHANGED <<data, columns, sortConfig, showAnomalies, hoveredCell>>
    /\ Render

\* a click on Next, lines 183-189
ClickNext ==
    /\ Mounted
    /\ totalPages(data, sortConfig) > 1 /\ currentPage # totalPages(data, sortConfig)
    /\ currentPage' = IF currentPage + 1 < totalPages(data, sortConfig)
                       THEN currentPage + 1 ELSE totalPages(data, sortConfig)
    /\ UNCHANGED <<data, columns, sortConfig, showAnomalies, hoveredCell>>
    /\ Render

\* line 78: the toggle and the summary badge are shown
ControlsShown == ~IsNullStats(anomalyAnalysis) /\ anomalyAnalysis.totalAnomalies > 0

\* a click on the Highlight Anomalies checkbox, lines 82-86
ToggleHighlight ==
    /\ Mounted /\ ControlsShown
    /\ showAnomalies' = ~showAnomalies
    /\ UNCHANGED <<data, columns, currentPage, sortConfig, hoveredCell>>
    /\ Render

\* the rows on screen, and the anomaly info of the cell of row rowIdx (from 0)
\* of the page and column col, line 128
PageRows == paginatedData(data, sortConfig, currentPage)
CellInfo(rowIdx, col) ==
    getCellAnomalyInfo(showAnomalies, anomalyAnalysis, PageRows[rowIdx + 1], col)

\* the mouse enters a cell, line 136
MouseEnterCell ==
    /\ Mounted
    /\ \E rowIdx \in 0 .. (Len(PageRows) - 1), col \in Range(columns.items) :
           hoveredCell' = IF CellInfo(rowIdx, col).isAnomaly
                          THEN [row |-> rowIdx, col |-> col] ELSE hoveredCell
    /\ UNCHANGED <<data, columns, currentPage, sortConfig, showAnomalies>>
    /\ Render

\* the mouse leaves a cell, line 137
MouseLeaveCell ==
    /\ Mounted
    /\ Len(PageRows) > 0 /\ columns.items # <<>>
    /\ hoveredCell' = NoCell
    /\ UNCHANGED <<data, columns, currentPage, sortConfig, showAnomalies>>
    /\ Render

\* what the render shows of the anomalies: the count in the header of a column
\* (line 115), the class and the indicator of a cell (lines 135 and 143), the
\* tooltip of a cell (line 148)
ColumnCountShown(col) ==
    /\ ~IsNullStats(anomalyAnalysis)
    /\ col \in DOMAIN anomalyAnalysis.anomalyCounts
    /\ anomalyAnalysis.anomalyCounts[col] > 0
    /\ showAnomalies
CellHighlighted(rowIdx, col) == getCellClass(CellInfo(rowIdx, col)) # ""
TooltipShown(rowIdx, col) ==
    CellInfo(rowIdx, col).isAnomaly /\ hoveredCell = [row |-> rowIdx, col |-> col]

----------------------------------------------------------------------------
(* App: the state after the first render, and one action for each event *)

\* the application is loaded at a path: lines 44-45 read localStorage
Loaded(storage, path) ==
    [token |-> storage.authToken, username |-> storage.username,
     localStorage |-> storage, location |-> Routed(path, storage.authToken),
     loginPending |-> FALSE, updatePending |-> NoValue]

InitAuth ==
    /\ fn = "App" /\ pc = "rendered"
    /\ \E tok \in {NoValue, StringValue("t1")}, name \in {NoValue, StringValue("u1")},
          path \in Paths :
           auth = Loaded([authToken |-> tok, username |-> name], path)
    /\ datasetPage = NoDatasetPage /\ deletion = NoDeletion /\ uploader = NoUploader
    /\ NoStatisticsCall /\ NoDetectCall /\ NoAnalyzeCall /\ NoTooltipCall
    /\ NoEarlierCalls /\ NoTable

AppShown == fn = "App"
OtherThanAuth ==
    <<fn, pc, values, statistics, value, stats, anomaly, data, columns, analysis,
      tooltip, calls, tableVars, datasetPage, deletion, uploader>>

\* the form of AuthPage is submitted (AuthPage lines 34-40): a login request
SubmitLogin ==
    /\ AppShown /\ PageAt(auth.location) = "AuthPage" /\ ~auth.loginPending
    /\ auth' = [auth EXCEPT !.loginPending = TRUE]
    /\ UNCHANGED OtherThanAuth

\* the login request succeeds: login(data.token, data.username), lines 47-52,
\* and navigate('/') (AuthPage lines 41-42)
LoginResponse ==
    /\ AppShown /\ auth.loginPending
    /\ \E tok \in ApiTokens, name \in ApiUsernames :
           auth' = [auth EXCEPT
                      !.localStorage = [authToken |-> Stored(tok), username |-> Stored(name)],
                      !.token = tok, !.username = name,
                      !.location = Routed("/", tok),
                      !.loginPending = FALSE]
    /\ UNCHANGED OtherThanAuth

\* the login request fails
LoginFailure ==
    /\ AppShown /\ auth.loginPending
    /\ auth' = [auth EXCEPT !.loginPending = FALSE]
    /\ UNCHANGED OtherThanAuth

\* Sign Out in the Sidebar of a page: logout, lines 54-59, and the render
\* that follows, in which ProtectedRoute redirects
Logout ==
    /\ AppShown /\ PageAt(auth.location) # "AuthPage"
    /\ auth' = [auth EXCEPT
                  !.localStorage = [authToken |-> NoValue, username |-> NoValue],
                  !.token = NoValue, !.username = NoValue,
                  !.location = Routed(auth.location, NoValue)]
    /\ UNCHANGED OtherThanAuth

\* the form of ProfilePage is submitted (part_002 lines 61-71): an update request
SubmitProfile ==
    /\ AppShown /\ PageAt(auth.location) = "ProfilePage" /\ auth.updatePending = NoValue
    /\ \E name \in ApiUsernames : auth' = [auth EXCEPT !.updatePending = name]
    /\ UNCHANGED OtherThanAuth

\* the update request succeeds, wherever the user is by then:
\* updateUser(formData.username), lines 61-64
UpdateResponse ==
    /\ AppShown /\ auth.updatePending # NoValue
    /\ auth' = [auth EXCEPT
                  !.localStorage = [@ EXCEPT !.username = auth.updatePending],
                  !.username = auth.updatePending,
                  !.updatePending = NoValue]
    /\ UNCHANGED OtherThanAuth

\* a route change inside the application: navigate, or the history buttons
ChangeRoute ==
    /\ AppShown
    /\ \E path \in Paths : auth' = [auth EXCEPT !.location = Routed(path, auth.token)]
    /\ UNCHANGED OtherThanAuth

\* the application is loaded anew at a path: the requests in flight are gone
Reload ==
    /\ AppShown
    /\ \E path \in Paths : auth' = Loaded(auth.localStorage, path)
    /\ UNCHANGED OtherThanAuth

NextAuth ==
    \/ SubmitLogin \/ LoginResponse \/ LoginFailure \/ Logout
    \/ SubmitProfile \/ UpdateResponse \/ ChangeRoute \/ Reload

----------------------------------------------------------------------------
(* DatasetPage: the first render and its effect, and one action for each event *)

OtherThanDatasetPage ==
    <<fn, pc, values, statistics, value, stats, anomaly, data, columns, analysis,
      tooltip, calls, tableVars, auth, deletion, uploader>>

\* lines 15-19 and the effect of lines 65-67
InitDatasetPage ==
    /\ fn = "DatasetPage" /\ pc = "rendered"
    /\ \E id \in DatasetIds :
          datasetPage =
              BeginLoad([id |-> id, dataset |-> NoDataset, datasetSummary |-> NoDataset,
                         datasetData |-> NoDataset, loading |-> TRUE, error |-> FALSE,
                         loads |-> <<>>], id)
    /\ auth = NoAuth /\ deletion = NoDeletion /\ uploader = NoUploader
    /\ NoStatisticsCall /\ NoDetectCall /\ NoAnalyzeCall /\ NoTooltipCall
    /\ NoEarlierCalls /\ NoTable

DatasetPageShown == fn = "DatasetPage"

\* the route changes to another dataset: the page stays mounted and the effect
\* of lines 65-67 runs again
ChangeDataset ==
    /\ DatasetPageShown /\ Len(datasetPage.loads) < MaxLoads
    /\ \E id \in DatasetIds \ {datasetPage.id} : datasetPage' = BeginLoad(datasetPage, id)
    /\ UNCHANGED OtherThanDatasetPage

\* getDatasetSummary of a call returns: lines 73-81
SummaryArrives ==
    /\ DatasetPageShown
    /\ \E n \in DOMAIN datasetPage.loads :
          /\ datasetPage.loads[n].stage = "summary"
          /\ datasetPage' =
                [datasetPage EXCEPT !.dataset = datasetPage.loads[n].id,
                                    !.datasetSummary = datasetPage.loads[n].id,
                                    !.loads[n].stage = "data"]
    /\ UNCHANGED OtherThanDatasetPage

\* getDatasetData of a call returns: lines 81-82 and 87-89
DataArrives ==
    /\ DatasetPageShown
    /\ \E n \in DOMAIN datasetPage.loads :
          /\ datasetPage.loads[n].stage = "data"
          /\ datasetPage' =
                [datasetPage EXCEPT !.datasetData = datasetPage.loads[n].id,
                                    !.loading = FALSE,
                                    !.loads[n].stage = "settled"]
    /\ UNCHANGED OtherThanDatasetPage

\* a request of a call fails: lines 84-89
RequestFails ==
    /\ DatasetPageShown
    /\ \E n \in DOMAIN datasetPage.loads :
          /\ datasetPage.loads[n].stage \in {"summary", "data"}
          /\ datasetPage' =
                [datasetPage EXCEPT !.error = TRUE, !.loading = FALSE,
                                    !.loads[n].stage = "settled"]
    /\ UNCHANGED OtherThanDatasetPage

NextDatasetPage == ChangeDataset \/ SummaryArrives \/ DataArrives \/ RequestFails

----------------------------------------------------------------------------
(* Deleting a dataset: a page with its Sidebar, and one action for each event *)

OtherThanDeletion ==
    <<fn, pc, values, statistics, value, stats, anomaly, data, columns, analysis,
      tooltip, calls, tableVars, auth, datasetPage, uploader>>

InitDeletion ==
    /\ fn = "ConfirmModal" /\ pc = "rendered"
    /\ \E route \in DatasetIds \cup {NoDataset} :
          deletion =
              [page |-> IF route = NoDataset THEN "DashboardPage" ELSE "DatasetPage",
               route |-> route, sidebarModal |-> ClosedModal, pageModal |-> ClosedModal,
               requests |-> <<>>]
    /\ auth = NoAuth /\ datasetPage = NoDatasetPage /\ uploader = NoUploader
    /\ NoStatisticsCall /\ NoDetectCall /\ NoAnalyzeCall /\ NoTooltipCall
    /\ NoEarlierCalls /\ NoTable

DeletionShown == fn = "ConfirmModal"
\* an open ConfirmModal covers the page
NoModalOpen == ~deletion.sidebarModal.show /\ ~deletion.pageModal.show

\* a click on the delete icon of a dataset in the Sidebar (line 297)
ClickDeleteIcon ==
    /\ DeletionShown /\ NoModalOpen
    /\ \E id \in DatasetIds : deletion' = handleDeleteClick(deletion, id)
    /\ UNCHANGED OtherThanDeletion

\* a click on Delete Dataset of DatasetPage (line 163)
ClickDeleteDataset ==
    /\ DeletionShown /\ NoModalOpen /\ deletion.page = "DatasetPage"
    /\ deletion' = handleDelete(deletion)
    /\ UNCHANGED OtherThanDeletion

\* Cancel, or a click on the backdrop, of the modal of the Sidebar (line 316)
CancelSidebarModal ==
    /\ DeletionShown /\ deletion.sidebarModal.show
    /\ deletion' = [deletion EXCEPT !.sidebarModal = CloseModal(@)]
    /\ UNCHANGED OtherThanDeletion

\* the confirm button of the modal of the Sidebar (line 317)
ConfirmSidebarModal ==
    /\ DeletionShown /\ deletion.sidebarModal.show
    /\ Len(deletion.requests) < MaxDeletes
    /\ deletion' = SidebarConfirmDelete(deletion)
    /\ UNCHANGED OtherThanDeletion

\* Cancel, or a click on the backdrop, of the modal of DatasetPage (line 216)
CancelPageModal ==
    /\ DeletionShown /\ deletion.pageModal.show
    /\ deletion' = [deletion EXCEPT !.pageModal = CloseModal(@)]
    /\ UNCHANGED OtherThanDeletion

\* the confirm button of the modal of DatasetPage (line 217); the modal stays
\* open until the request returns
ConfirmPageModal ==
    /\ DeletionShown /\ deletion.pageModal.show
    /\ Len(deletion.requests) < MaxDeletes
    /\ deletion' = PageConfirmDelete(deletion)
    /\ UNCHANGED OtherThanDeletion

DeleteSucceeds ==
    /\ DeletionShown
    /\ \E n \in DOMAIN deletion.requests : deletion' = AfterDelete(deletion, n)
    /\ UNCHANGED OtherThanDeletion

DeleteFails ==
    /\ DeletionShown
    /\ \E n \in DOMAIN deletion.requests : deletion' = AfterFailedDelete(deletion, n)
    /\ UNCHANGED OtherThanDeletion

\* a click on a dataset of the Sidebar: from DashboardPage the DatasetPage is
\* mounted, on DatasetPage the route changes and the page keeps its state
OpenDataset ==
    /\ DeletionShown /\ NoModalOpen
    /\ \E id \in DatasetIds \ {deletion.route} :
          deletion' = IF deletion.page = "DatasetPage"
                      THEN [deletion EXCEPT !.route = id]
                      ELSE Mount(deletion, "DatasetPage", id)
    /\ UNCHANGED OtherThanDeletion

\* Back to Dashboard (part_000 line 156)
BackToDashboard ==
    /\ DeletionShown /\ NoModalOpen /\ deletion.page = "DatasetPage"
    /\ deletion' = Mount(deletion, "DashboardPage", NoDataset)
    /\ UNCHANGED OtherThanDeletion

NextDeletion ==
    \/ ClickDeleteIcon \/ ClickDeleteDataset \/ CancelSidebarModal \/ ConfirmSidebarModal
    \/ CancelPageModal \/ ConfirmPageModal \/ DeleteSucceeds \/ DeleteFails
    \/ OpenDataset \/ BackToDashboard

----------------------------------------------------------------------------
(* FileUploader: the first render, and one action for each event *)

OtherThanUploader ==
    <<fn, pc, values, statistics, value, stats, anomaly, data, columns, analysis,
      tooltip, calls, tableVars, auth, datasetPage, deletion>>

InitUploader ==
    /\ fn = "FileUploader" /\ pc = "rendered"
    /\ uploader = [uploading |-> FALSE, progress |-> 0, error |-> "", requests |-> <<>>]
    /\ auth = NoAuth /\ datasetPage = NoDatasetPage /\ deletion = NoDeletion
    /\ NoStatisticsCall /\ NoDetectCall /\ NoAnalyzeCall /\ NoTooltipCall
    /\ NoEarlierCalls /\ NoTable

UploaderShown == fn = "FileUploader"

\* a drop on the zone or a selection in the file input: handleDrop and
\* handleChange, lines 179-184 and 199-202
SelectFile ==
    /\ UploaderShown /\ Len(uploader.requests) < MaxUploads
    /\ \E file \in FileNames : uploader' = handleFile(uploader, file)
    /\ UNCHANGED OtherThanUploader

\* onUploadProgress of a request calls setProgress (line 168)
UploadProgress ==
    /\ UploaderShown
    /\ \E n \in DOMAIN uploader.requests, pct \in Percentages :
          /\ pct > uploader.requests[n].sent
          /\ uploader' = [uploader EXCEPT !.progress = pct, !.requests[n].sent = pct]
    /\ UNCHANGED OtherThanUploader

UploadSucceeds ==
    /\ UploaderShown
    /\ \E n \in DOMAIN uploader.requests :
          uploader' = handleFileSettles(uploader, n, FALSE)
    /\ UNCHANGED OtherThanUploader

UploadFails ==
    /\ UploaderShown
    /\ \E n \in DOMAIN uploader.requests :
          uploader' = handleFileSettles(uploader, n, TRUE)
    /\ UNCHANGED OtherThanUploader

NextUploader == SelectFile \/ UploadProgress \/ UploadSucceeds \/ UploadFails

NextTable ==
    \/ ReplaceProps \/ ClickHeader \/ ClickPrevious \/ ClickNext
    \/ ToggleHighlight \/ MouseEnterCell \/ MouseLeaveCell

Spec == Init /\ [][Next]_vars

\* one specification for each function
SpecStatistics == InitStatistics /\ [][CallCalculateStatistics]_vars
SpecDetect == InitDetect /\ [][CallDetectAnomaly]_vars
SpecAnalyze == InitAnalyze /\ [][CallAnalyzeDataset]_vars
\* the application: authentication and routes
SpecAuth == InitAuth /\ [][NextAuth]_vars
\* deleting datasets from DashboardPage and DatasetPage
SpecDeletion == InitDeletion /\ [][NextDeletion]_vars
\* the same, every request returning at last
SpecDeletionFair == SpecDeletion /\ WF_vars(DeleteSucceeds \/ DeleteFails)
\* FileUploader from its first render on
SpecUploader == InitUploader /\ [][NextUploader]_vars
\* DatasetPage from its first render on
SpecDatasetPage == InitDatasetPage /\ [][NextDatasetPage]_vars
\* a DataTable from its first render on
SpecTable == InitTable /\ [][NextTable]_vars
\* getAnomalyTooltip
SpecTooltip == InitTooltip /\ [][CallGetAnomalyTooltip]_vars
\* analyzeDataset on the column of Scenario A, in every order of its rows
SpecScenarioA == InitScenarioA /\ [][CallAnalyzeDataset]_vars
\* analyzeDataset on datasets of two columns
SpecCross == InitCross /\ [][CallAnalyzeDataset]_vars
\* sequences of calls of the three functions
SpecCalls ==
    InitCalls /\ [][CallCalculateStatistics \/ CallDetectAnomaly \/ CallAnalyzeDataset
                        \/ AnotherCall]_vars
\* calculateStatistics on arrays of numbers of the largest magnitude
SpecOrder == InitOrder /\ [][CallCalculateStatistics]_vars
\* analyzeDataset on datasets of finite numbers, and the tooltip of a cell
SpecFinite == InitFinite /\ [][CallAnalyzeDataset \/ CallGetCellAnomalyInfo]_vars
\* analyzeDataset on datasets of one column with cells of every kind
SpecColumn == InitColumn /\ [][CallAnalyzeDataset]_vars

----------------------------------------------------------------------------
(* The claims about analyzeDataset, under SpecAnalyze *)

\* a finite number: neither NaN nor an infinity, nor a value of another type
IsFiniteNumber(v) == v.k = "fin"

\* the call of analyzeDataset has returned a result (it did not throw)
AnalyzeReturned == fn = "analyzeDataset" /\ pc = "done" /\ ~analysis.threw

\* the column of the data has a finite number in some row
HasFiniteNumber(col) ==
    \E i \in DOMAIN data.items : IsFiniteNumber(Get(data.items[i], col))

RECURSIVE SumOverColumns(_, _)
SumOverColumns(cols, counts) ==
    IF cols = <<>> THEN 0
    ELSE counts[Head(cols)] + SumOverColumns(Tail(cols), counts)

\* C1: for every data and every list of unique column names, totalAnomalies of
\* the result is the sum of anomalyCounts[c] over the columns c of numericColumns.
C1_TotalIsSumOfCounts ==
    AnalyzeReturned =>
        analysis.totalAnomalies
            = SumOverColumns(analysis.numericColumns, analysis.anomalyCounts)

\* C1 happens: two numeric columns of a non-empty dataset, each with an anomaly
C1_Witness ==
    /\ AnalyzeReturned
    /\ data.items # <<>>
    /\ Len(analysis.numericColumns) = 2
    /\ \A c \in DOMAIN analysis.anomalyCounts : analysis.anomalyCounts[c] >= 1
    /\ analysis.totalAnomalies >= 2

\* C2: numericColumns is a subset of columns, and a column is in numericColumns
\* if and only if some row's value for it is a finite number (NaN, +Infinity,
\* -Infinity, strings, null and undefined do not make a column numeric).
C2_NumericIffFiniteNumber ==
    AnalyzeReturned =>
        /\ Range(analysis.numericColumns) \subseteq Range(columns.items)
        /\ \A c \in Range(columns.items) :
               c \in Range(analysis.numericColumns) <=> HasFiniteNumber(c)

\* C9: analyzeDataset throws nothing and returns the empty result (no column
\* statistics, no anomaly counts, no anomalies) whenever data is empty, columns
\* is empty or absent, or data is not an array.
C9_MalformedInputGivesEmptyResult ==
    (/\ fn = "analyzeDataset" /\ pc = "done"
     /\ \/ data.t # "array" \/ data.items = <<>>
        \/ columns.t # "array" \/ columns.items = <<>>)
    => /\ ~analysis.threw
       /\ analysis.numericColumns = <<>>
       /\ DOMAIN analysis.columnStats = {}
       /\ DOMAIN analysis.anomalyCounts = {}
       /\ analysis.totalAnomalies = 0

\* C10: the keys of columnStats and of anomalyCounts are exactly numericColumns;
\* a column with no finite number (all strings, for one) is not in
\* numericColumns, has no entry in columnStats or anomalyCounts, and adds
\* nothing to totalAnomalies.
C10_KeysAreNumericColumns ==
    AnalyzeReturned =>
        /\ DOMAIN analysis.columnStats = Range(analysis.numericColumns)
        /\ DOMAIN analysis.anomalyCounts = Range(analysis.numericColumns)
        /\ \A c \in Range(columns.items) :
               ~HasFiniteNumber(c) =>
                   /\ c \notin Range(analysis.numericColumns)
                   /\ c \notin DOMAIN analysis.columnStats
                   /\ c \notin DOMAIN analysis.anomalyCounts
        /\ analysis.totalAnomalies
               = SumOverColumns(SelectSeq(columns.items, HasFiniteNumber),
                                [c \in Range(columns.items) |->
                                    IF c \in DOMAIN analysis.anomalyCounts
                                    THEN analysis.anomalyCounts[c] ELSE 0])

----------------------------------------------------------------------------
(* The claims about calculateStatistics, under SpecStatistics *)

\* the call of calculateStatistics has returned
StatisticsReturned == fn = "calculateStatistics" /\ pc = "done"

\* the finite numbers of the argument, in the argument's order
FiniteEntries == SelectSeq(values, IsFiniteNumber)

\* a <= b
Le(a, b) == Lt(a, b) \/ (~NotNum(a) /\ ~NotNum(b) /\ a = b)

\* the entry at index i (from 0) of s sorted ascending: the v of s with at most
\* i entries below it and more than i entries not above it
SortedAt(s, i) ==
    CHOOSE v \in Range(s) :
        /\ Cardinality({j \in DOMAIN s : Lt(s[j], v)}) <= i
        /\ Cardinality({j \in DOMAIN s : Le(s[j], v)}) > i

\* C3: the statistics are computed over exactly the finite numbers of the input
\* (NaN, infinite values, strings and null are left out): count is their
\* number, min, max and the quartiles are among them, and the result is null
\* if and only if there is none.
C3_StatisticsOverFiniteEntries ==
    StatisticsReturned =>
        /\ IsNullStats(statistics) <=> FiniteEntries = <<>>
        /\ ~IsNullStats(statistics) =>
               /\ statistics.count = Len(FiniteEntries)
               /\ {statistics.min, statistics.max, statistics.q1,
                   statistics.median, statistics.q3} \subseteq Range(FiniteEntries)

\* C4: with the n >= 1 finite numbers of the input sorted ascending as
\* sorted[0..n-1], q1 = sorted[floor(n/4)], median = sorted[floor(n/2)],
\* q3 = sorted[floor(3n/4)], min = sorted[0], max = sorted[n-1], iqr = q3 - q1,
\* lowerBound = q1 - 1.5*iqr, upperBound = q3 + 1.5*iqr, lowerExtreme = q1 - 3*iqr,
\* upperExtreme = q3 + 3*iqr, every index being inside 0..n-1.
C4_QuartilesByFloorIndex ==
    (StatisticsReturned /\ Len(FiniteEntries) >= 1) =>
        LET f == FiniteEntries
            n == Len(f)
            s == statistics
        IN  /\ ~IsNullStats(s)
            /\ {n \div 4, n \div 2, (3 * n) \div 4} \subseteq 0..(n - 1)
            /\ s.q1 = SortedAt(f, n \div 4)
            /\ s.median = SortedAt(f, n \div 2)
            /\ s.q3 = SortedAt(f, (3 * n) \div 4)
            /\ s.min = SortedAt(f, 0)
            /\ s.max = SortedAt(f, n - 1)
            /\ s.iqr = Rat(s.q3.n * s.q1.d - s.q1.n * s.q3.d, s.q3.d * s.q1.d)
            /\ s.lowerBound = Sub(s.q1, Mul(Rat(3, 2), s.iqr))
            /\ s.upperBound = Add(s.q3, Mul(Rat(3, 2), s.iqr))
            /\ s.lowerExtreme = Sub(s.q1, Mul(Fin(3), s.iqr))
            /\ s.upperExtreme = Add(s.q3, Mul(Fin(3), s.iqr))

\* C5: every statistics object that calculateStatistics returns with iqr > 0
\* has lowerExtreme <= lowerBound <= upperBound <= upperExtreme.
C5_FenceOrdering ==
    (StatisticsReturned /\ ~IsNullStats(statistics) /\ Gt(statistics.iqr, Fin(0))) =>
        /\ Le(statistics.lowerExtreme, statistics.lowerBound)
        /\ Le(statistics.lowerBound, statistics.upperBound)
        /\ Le(statistics.upperBound, statistics.upperExtreme)

\* C5 happens: statistics with a finite iqr > 0, whose four fences all differ
C5_Witness ==
    /\ StatisticsReturned /\ ~IsNullStats(statistics)
    /\ IsFiniteNumber(statistics.iqr) /\ Gt(statistics.iqr, Fin(0))
    /\ Lt(statistics.lowerExtreme, statistics.lowerBound)
    /\ Lt(statistics.lowerBound, statistics.upperBound)
    /\ Lt(statistics.upperBound, statistics.upperExtreme)

----------------------------------------------------------------------------
(* The claims about detectAnomaly, under SpecDetect *)

\* the call of detectAnomaly has returned
DetectReturned == fn = "detectAnomaly" /\ pc = "done"

Outcome(type, severity) == [isAnomaly |-> TRUE, type |-> type, severity |-> severity]
NoneOutcome == [isAnomaly |-> FALSE, type |-> "null", severity |-> "null"]

\* the four rules, on the arguments of the call
BelowLowerExtreme == Lt(value, stats.lowerExtreme)
AboveUpperExtreme == Gt(value, stats.upperExtreme)
BelowLowerBound == Lt(value, stats.lowerBound)
AboveUpperBound == Gt(value, stats.upperBound)

\* C6: for a finite value and non-null stats the result is that of the first
\* rule that matches, in the order: value < lowerExtreme -> (low, extreme);
\* value > upperExtreme -> (high, extreme); value < lowerBound -> (low, mild);
\* value > upperBound -> (high, mild); otherwise no anomaly.  A value outside an
\* extreme fence is never mild, and a value equal to a fence is no anomaly of
\* that fence's tier.
C6_FirstMatchingRule ==
    (DetectReturned /\ IsFiniteNumber(value) /\ ~IsNullStats(stats)) =>
        /\ anomaly = Outcome("low", "extreme") <=> BelowLowerExtreme
        /\ anomaly = Outcome("high", "extreme")
               <=> (~BelowLowerExtreme /\ AboveUpperExtreme)
        /\ anomaly = Outcome("low", "mild")
               <=> (~BelowLowerExtreme /\ ~AboveUpperExtreme /\ BelowLowerBound)
        /\ anomaly = Outcome("high", "mild")
               <=> (/\ ~BelowLowerExtreme /\ ~AboveUpperExtreme
                    /\ ~BelowLowerBound /\ AboveUpperBound)
        /\ anomaly = NoneOutcome
               <=> (/\ ~BelowLowerExtreme /\ ~AboveUpperExtreme
                    /\ ~BelowLowerBound /\ ~AboveUpperBound)
        /\ (BelowLowerExtreme \/ AboveUpperExtreme) => anomaly.severity # "mild"
        /\ value = stats.lowerExtreme => anomaly # Outcome("low", "extreme")
        /\ value = stats.upperExtreme => anomaly # Outcome("high", "extreme")
        /\ value = stats.lowerBound => anomaly # Outcome("low", "mild")
        /\ value = stats.upperBound => anomaly # Outcome("high", "mild")

\* C6 happens: a finite value beyond an extreme fence and beyond a mild fence
\* at once, reported as extreme
C6_Witness ==
    /\ DetectReturned /\ IsFiniteNumber(value) /\ ~IsNullStats(stats)
    /\ AboveUpperExtreme /\ BelowLowerBound
    /\ anomaly = Outcome("high", "extreme")

\* C7: for all value and stats, null stats and non-numeric values included, the
\* result is one of the five outcomes none, mild-high, mild-low, extreme-high,
\* extreme-low; isAnomaly is false if and only if type and severity are both
\* null, and an anomaly has a non-null type and a non-null severity.
C7_OneOfFiveOutcomes ==
    DetectReturned =>
        /\ anomaly \in {NoneOutcome} \cup
               {Outcome(t, s) : t \in {"high", "low"}, s \in {"mild", "extreme"}}
        /\ anomaly.isAnomaly = FALSE
               <=> (anomaly.type = "null" /\ anomaly.severity = "null")
        /\ anomaly.isAnomaly => (anomaly.type # "null" /\ anomaly.severity # "null")

\* C7 happens: a call with null stats or a value that is no number, which
\* returns the outcome none
C7_Witness ==
    /\ DetectReturned
    /\ IsNullStats(stats) \/ TypeOf(value) # "number"
    /\ anomaly.type = "null"

\* C8: the result is {isAnomaly: false, type: null, severity: null} whenever
\* stats is null or the value is not a finite number (a string, null, undefined,
\* NaN, +Infinity or -Infinity), whatever the fences are.
C8_NoAnomalyUnlessFinite ==
    (DetectReturned /\ (IsNullStats(stats) \/ ~IsFiniteNumber(value))) =>
        anomaly = NoneOutcome

----------------------------------------------------------------------------
(* The claims about the columns of analyzeDataset, under SpecColumn *)

\* a cell that is a string, null, undefined or NaN
IsNoNumberCell(v) == v.k \in {"string", "null", "undefined", "nan"}

\* the rows of column c that detectAnomaly classifies as anomalies against
\* calculateStatistics of the column's values
Flagged(c) ==
    LET cells == ColumnValues(data.items, c)
        st == calculateStatistics(cells)
    IN  {i \in DOMAIN cells : detectAnomaly(cells[i], st).isAnomaly}

\* C11: for every numeric column c, anomalyCounts[c] is the number of rows whose
\* cell in c detectAnomaly classifies as an anomaly against calculateStatistics
\* of the column's values; the cells that are not finite numbers are never
\* counted and do not change the statistics, which are those of the column with
\* such cells removed.
C11_CountsClassifiedCells ==
    AnalyzeReturned =>
        \A c \in Range(analysis.numericColumns) :
            LET cells == ColumnValues(data.items, c)
            IN  /\ analysis.anomalyCounts[c] = Cardinality(Flagged(c))
                /\ \A i \in Flagged(c) : IsFiniteNumber(cells[i])
                /\ analysis.columnStats[c]
                       = calculateStatistics(SelectSeq(cells, IsFiniteNumber))

\* the part of C11 about the cells that are strings, null, undefined or NaN:
\* the count is the number of classified rows, none of them is such a cell, and
\* the statistics are those of the column without such cells
C11_ListedKindsExcluded ==
    AnalyzeReturned =>
        \A c \in Range(analysis.numericColumns) :
            LET cells == ColumnValues(data.items, c)
                IsKept(v) == ~IsNoNumberCell(v)
            IN  /\ analysis.anomalyCounts[c] = Cardinality(Flagged(c))
                /\ \A i \in Flagged(c) : ~IsNoNumberCell(cells[i])
                /\ analysis.columnStats[c]
                       = calculateStatistics(SelectSeq(cells, IsKept))

----------------------------------------------------------------------------
(* The claims about the order of the values, under SpecOrder *)

\* a statistics object without its mean
WithoutMean(st) == IF IsNullStats(st) THEN st ELSE [st EXCEPT !.mean = Fin(0)]

\* C12: calculateStatistics returns equal statistics (q1, median, q3, iqr,
\* mean, min, max, fences and count) for every reordering of its input.
C12_OrderDoesNotMatter ==
    StatisticsReturned =>
        \A p \in Reorderings(values) : calculateStatistics(p) = statistics

\* the part of C12 about the fields other than the mean: they are those of the
\* sorted copy, the same for every reordering
C12_SortedFieldsOrderFree ==
    StatisticsReturned =>
        \A p \in Reorderings(values) :
            WithoutMean(calculateStatistics(p)) = WithoutMean(statistics)

----------------------------------------------------------------------------
(* The claims about sequences of calls, under SpecCalls *)

\* the calls that have returned
ReturnedCalls == IF pc = "done" THEN Append(calls, CurrentCall) ELSE calls

\* two calls of the same function with the same arguments have the same result
SameArgumentsSameResult ==
    \A i, j \in DOMAIN ReturnedCalls :
        (/\ ReturnedCalls[i].fn = ReturnedCalls[j].fn
         /\ ReturnedCalls[i].args = ReturnedCalls[j].args)
            => ReturnedCalls[i].result = ReturnedCalls[j].result

\* a call leaves its arguments as they were: the values array (and its order),
\* the rows and the column list
ArgumentsKept ==
    (pc = "ready" /\ pc' = "done")
        => <<values, value, stats, data, columns>>' = <<values, value, stats, data, columns>>

----------------------------------------------------------------------------
(* The claims about the columns of a dataset, under SpecCross *)

\* the dataset reduced to its column c: the same rows, each with the key c only
OnlyColumn(c) ==
    Array([i \in DOMAIN data.items |-> [k \in {c} |-> Get(data.items[i], c)]])

\* what an analysis says of column c
AboutColumn(an, c) ==
    IF c \in Range(an.numericColumns)
    THEN <<TRUE, an.columnStats[c], an.anomalyCounts[c]>>
    ELSE <<FALSE>>

\* C14: what analyzeDataset reports for a listed column c (its membership in
\* numericColumns, columnStats[c], anomalyCounts[c]) is what it reports for the
\* dataset reduced to column c with c the only listed name; so datasets of the
\* same number of rows that agree on c agree on these, whatever the other
\* columns hold and whatever other names are listed.
C14_NoCrossColumnInteraction ==
    AnalyzeReturned =>
        \A c \in Range(columns.items) :
            AboutColumn(analysis, c)
                = AboutColumn(analyzeDataset(OnlyColumn(c), Array(<<c>>)), c)

\* C14 happens: two columns with different cells are listed, both numeric, one
\* with an anomaly and the other without
C14_Witness ==
    /\ AnalyzeReturned
    /\ Range(analysis.numericColumns) = {"a", "b"}
    /\ analysis.anomalyCounts["a"] >= 1 /\ analysis.anomalyCounts["b"] = 0
    /\ \E i \in DOMAIN data.items : Get(data.items[i], "b") = Str

----------------------------------------------------------------------------
(* The claims about the statistics with iqr = 0, under SpecStatistics *)

\* finite values around and between the numbers of a values array
Probes == {Rat(i, 2) : i \in -4 .. (2 * MaxVal + 2)}

----------------------------------------------------------------------------
(* The claim about Scenario A, under SpecScenarioA *)

\* C16: for the column values 10, 12, 11, 13, 100 in any order the statistics
\* are q1 = 11, median = 12, q3 = 13, iqr = 2, mild fences 8 and 16, extreme
\* fences 5 and 19; detectAnomaly classifies 100 as (high, extreme) and each of
\* 10, 11, 12, 13 as no anomaly; analyzeDataset reports exactly 1 anomaly for
\* the column.
C16_ScenarioA ==
    AnalyzeReturned =>
        LET st == calculateStatistics(ColumnValues(data.items, "a"))
        IN  /\ analysis.numericColumns = <<"a">>
            /\ analysis.columnStats["a"] = st
            /\ st.q1 = Fin(11) /\ st.median = Fin(12) /\ st.q3 = Fin(13)
            /\ st.iqr = Fin(2)
            /\ st.lowerBound = Fin(8) /\ st.upperBound = Fin(16)
            /\ st.lowerExtreme = Fin(5) /\ st.upperExtreme = Fin(19)
            /\ detectAnomaly(Fin(100), st) = Outcome("high", "extreme")
            /\ \A v \in {Fin(10), Fin(11), Fin(12), Fin(13)} :
                   detectAnomaly(v, st) = NoneOutcome
            /\ analysis.anomalyCounts["a"] = 1
            /\ analysis.totalAnomalies = 1

\* C16 happens: the analysis of the column with 100 in its first row and the
\* other values out of order
C16_Witness ==
    /\ AnalyzeReturned
    /\ ColumnValues(data.items, "a") = <<Fin(100), Fin(13), Fin(10), Fin(12), Fin(11)>>
    /\ analysis.totalAnomalies = 1

----------------------------------------------------------------------------
(* The claims about getAnomalyTooltip, under SpecTooltip *)

\* the call of getAnomalyTooltip has returned
TooltipReturned == fn = "getAnomalyTooltip" /\ pc = "done"

\* the message has the part
Contains(message, part) == \E i \in DOMAIN message : message[i] = part

\* the percentage of line 127 as the message shows it
PercentFigure ==
    ToFixed(Mul(Div(MathAbs(Sub(value, stats.mean)), stats.mean), Fin(100)), 1)

\* the distance of the value to the mild fence of the anomaly's side, as the
\* message shows it
DeviationFigure ==
    ToFixed(MathAbs(Sub(value, IF anomaly.type = "high" THEN stats.upperBound
                                   ELSE stats.lowerBound)), 2)

\* the anomaly with the other severity
OtherSeverity ==
    [anomaly EXCEPT !.severity = IF anomaly.severity = "extreme" THEN "mild" ELSE "extreme"]

\* C17: getAnomalyTooltip returns the empty string exactly when
\* anomaly.isAnomaly is false; for an anomaly the message has the
\* percent-from-mean figure and the word "above" when type is high, "below"
\* when type is low; the extreme message has also the deviation from the mild
\* fence of that side; the messages of the two severities for the same value
\* and stats differ.
C17_TooltipContract ==
    TooltipReturned =>
        /\ tooltip = <<>> <=> ~anomaly.isAnomaly
        /\ anomaly.isAnomaly =>
              /\ Contains(tooltip, PercentFigure)
              /\ anomaly.type = "high" =>
                    Contains(tooltip, Text("above")) /\ ~Contains(tooltip, Text("below"))
              /\ anomaly.type = "low" =>
                    Contains(tooltip, Text("below")) /\ ~Contains(tooltip, Text("above"))
              /\ anomaly.severity = "extreme" => Contains(tooltip, DeviationFigure)
              /\ getAnomalyTooltip(OtherSeverity, stats, value) # tooltip

\* C17 happens: the message of an extreme high anomaly with a finite percentage
\* that toFixed rounds, 66.666... to 66.7
C17_Witness ==
    /\ TooltipReturned
    /\ anomaly = Outcome("high", "extreme")
    /\ value = Fin(5) /\ stats.mean = Fin(3)
    /\ Contains(tooltip, [t |-> "number", s |-> "", neg |-> FALSE, m |-> 667, digits |-> 1])

\* C18: when the mean is 0 and the value of the anomaly is not 0, the
\* percentage is Infinity and the message shows it as "Infinity": no other
\* number takes its place and a message is returned.
C18_ZeroMeanShowsInfinity ==
    (TooltipReturned /\ anomaly.isAnomaly /\ stats.mean = Fin(0) /\ value # Fin(0)) =>
        /\ PercentDiff(stats, value) = PosInf
        /\ Len(tooltip) >= 2
        /\ tooltip[2] = [Text("Infinity") EXCEPT !.t = "number"]

\* C18 happens: the message for a finite value other than 0 and a mean of 0
C18_Witness ==
    /\ TooltipReturned /\ anomaly.isAnomaly
    /\ stats.mean = Fin(0) /\ value = Fin(5)
    /\ Contains(tooltip, [Text("Infinity") EXCEPT !.t = "number"])

----------------------------------------------------------------------------
(* The claims about DataTable, under SpecTable *)

\* a render of the table has run, to its end or to an exception
TableRendered == fn = "DataTable"

\* no analysis is available: data is absent or empty, or columns is absent
NoAnalysisAvailable == IsAbsent(data) \/ Len(data.items) = 0 \/ IsAbsent(columns)

\* the analysis of the current props
FreshAnalysis == IF NoAnalysisAvailable THEN Null ELSE analyzeDataset(data, columns)

\* a step that leaves the props as they are leaves the analysis as it is and
\* does not run the callback of the useMemo
OnlyPropsTriggerAnalysis ==
    (fn = "DataTable" /\ data' = data /\ columns' = columns)
        => (anomalyAnalysis' = anomalyAnalysis /\ ~recomputed')

\* C19: at every render, after any replacements of the data or columns props
\* and any sort, page, hover and toggle events, anomalyAnalysis is
\* analyzeDataset(data, columns) of the current props, or null when data is
\* empty or absent or columns is absent; sort, page, hover and toggle events
\* neither run nor change the analysis.
C19_AnalysisNeverStale ==
    [](TableRendered => anomalyAnalysis = FreshAnalysis) /\ [][OnlyPropsTriggerAnalysis]_vars

\* C19 happens: the columns were replaced while the data stayed, after a sort,
\* a page change and a toggle, and the analysis is that of the new columns
C19_Witness ==
    /\ Mounted
    /\ data.ref = "large" /\ columns.ref = "ab"
    /\ sortConfig.key = "b" /\ currentPage = 2 /\ ~showAnomalies
    /\ recomputed
    /\ anomalyAnalysis.numericColumns = <<"a">>

\* the render shows something of the anomalies
AnomalyUIShown ==
    \/ ControlsShown
    \/ \E col \in Range(columns.items) : ColumnCountShown(col)
    \/ \E rowIdx \in 0 .. (Len(PageRows) - 1), col \in Range(columns.items) :
           CellHighlighted(rowIdx, col) \/ TooltipShown(rowIdx, col)

\* C20: when no analysis is available (data empty or absent, or columns
\* absent), the table renders without an error and shows no anomaly UI: no
\* toggle or summary badge, no count in a column header, no highlighted cell, no
\* tooltip.
C20_NoAnalysisRendersPlain ==
    (TableRendered /\ NoAnalysisAvailable) => (pc = "rendered" /\ ~AnomalyUIShown)

\* the part of C20 that holds: a table that rendered with no analysis shows no
\* anomaly UI
C20_NoAnalysisNoAnomalyUI ==
    (Mounted /\ NoAnalysisAvailable) => ~AnomalyUIShown

----------------------------------------------------------------------------
(* The claims about the highlight toggle of DataTable, under SpecTable *)

\* the cells on screen: row (from 0) of the page, and column
CellsShown == (0 .. (Len(PageRows) - 1)) \X Range(columns.items)

\* the cells on screen that the render highlights
HighlightedCells == {c \in CellsShown : CellHighlighted(c[1], c[2])}

\* calculateStatistics of the numeric columns, null for the others
StatisticsOfColumns ==
    [col \in Range(columns.items) |->
        LET cells == ColumnValues(data.items, col)
        IN  IF SomeNumeric(cells) THEN calculateStatistics(cells) ELSE Null]

\* the cells on screen whose value detectAnomaly classifies as an anomaly
\* against calculateStatistics of their column, whatever showAnomalies is
AnomalousCells ==
    LET st == StatisticsOfColumns
        rows == PageRows
    IN  {c \in CellsShown : detectAnomaly(Get(rows[c[1] + 1], c[2]), st[c[2]]).isAnomaly}

\* a step that changes showAnomalies changes nothing else that the highlights
\* depend on
ToggleKeepsTheRest ==
    (fn = "DataTable" /\ showAnomalies' # showAnomalies)
        => UNCHANGED <<data, columns, sortConfig, currentPage, anomalyAnalysis>>

\* the table is on screen with highlighting off / on
HighlightOff == Mounted /\ ~showAnomalies
HighlightOn == Mounted /\ showAnomalies

\* with showAnomalies false nothing is annotated; the toggle is shown whenever
\* totalAnomalies > 0; with showAnomalies true the highlighted cells are the
\* anomalous cells on screen
ToggleControls ==
    /\ HighlightOff =>
          /\ HighlightedCells = {}
          /\ \A c \in CellsShown : ~CellInfo(c[1], c[2]).isAnomaly /\ ~TooltipShown(c[1], c[2])
          /\ \A col \in Range(columns.items) : ~ColumnCountShown(col)
    /\ (Mounted /\ FreshAnalysis # Null /\ FreshAnalysis.totalAnomalies > 0)
          => (ControlsShown /\ ENABLED ToggleHighlight)
    /\ HighlightOn => HighlightedCells = AnomalousCells

\* C21: in every state of the table with showAnomalies false no cell has an
\* anomaly class or indicator, no tooltip is shown and no column header shows
\* a count; the toggle is shown whenever totalAnomalies > 0, whatever
\* showAnomalies is; switching the highlighting off and on again changes
\* nothing else, so that the same cells are highlighted as before.
C21_ToggleControlsAnnotation == []ToggleControls /\ [][ToggleKeepsTheRest]_vars

\* C21 happens: highlighting is off while the mouse is on a cell that was
\* highlighted, in a table with anomalies on the second page
C21_Witness ==
    /\ HighlightOff /\ ControlsShown
    /\ currentPage = 2 /\ AnomalousCells # {}
    /\ <<hoveredCell.row, hoveredCell.col>> \in AnomalousCells

----------------------------------------------------------------------------
(* The claims about authentication and routes, under SpecAuth *)

ProtectedPages == {"DashboardPage", "ProfilePage", "DatasetPage"}

\* a protected page is shown only with a token, and without a token the path
\* shown is /login
TokenGuardsPages ==
    AppShown =>
        /\ PageAt(auth.location) \in ProtectedPages
               => (auth.token # NoValue /\ IsAuthenticated(auth.token))
        /\ ~IsAuthenticated(auth.token) => auth.location = "/login"

\* a step that takes the token away (logout) leaves no username in memory and
\* no authToken or username entry in localStorage
LogoutClears ==
    (AppShown /\ auth.token # NoValue /\ auth'.token = NoValue)
        => /\ auth'.username = NoValue
           /\ auth'.localStorage = [authToken |-> NoValue, username |-> NoValue]

\* C22: for any sequence of login, logout, updateUser and route changes, the
\* dashboard, profile and dataset pages are shown only while AuthProvider holds
\* a non-null token, a protected route visited without a token redirects to
\* /login, and after logout the token in memory and the authToken and username
\* entries of localStorage are cleared.
C22_TokenAccessControl == []TokenGuardsPages /\ [][LogoutClears]_vars

\* C22 happens: the user signed out of the profile page while a profile update
\* was in flight, and is held at /login with nothing left in memory or storage
C22_Witness ==
    /\ AppShown
    /\ auth.token = NoValue /\ auth.username = NoValue
    /\ auth.localStorage = [authToken |-> NoValue, username |-> NoValue]
    /\ auth.location = "/login" /\ auth.updatePending # NoValue

----------------------------------------------------------------------------
(* The order of the quartiles and fences, under SpecStatistics *)

\* the entries of values that the filter of line 12 keeps
Kept == {values[i] : i \in {j \in DOMAIN values : IsNumericValue(values[j])}}

QuartilesOrdered ==
    /\ Le(statistics.min, statistics.q1) /\ Le(statistics.q1, statistics.median)
    /\ Le(statistics.median, statistics.q3) /\ Le(statistics.q3, statistics.max)
    /\ {statistics.q1, statistics.median, statistics.q3, statistics.min, statistics.max}
           \subseteq Kept

FencesOrdered ==
    /\ Le(Fin(0), statistics.iqr)
    /\ Le(statistics.lowerExtreme, statistics.lowerBound)
    /\ Le(statistics.lowerBound, statistics.q1)
    /\ Le(statistics.q3, statistics.upperBound)
    /\ Le(statistics.upperBound, statistics.upperExtreme)

\* C23: every non-null result of calculateStatistics has
\* min <= q1 <= median <= q3 <= max, each an element of the filtered input,
\* iqr >= 0, and lowerExtreme <= lowerBound <= q1 and
\* q3 <= upperBound <= upperExtreme, for every input.
C23_QuartilesAndFencesOrdered ==
    (StatisticsReturned /\ ~IsNullStats(statistics))
        => (QuartilesOrdered /\ FencesOrdered)

\* the order of the quartiles holds for every input, and the order of the
\* fences for every input whose q1 and q3 are not the same infinity
C23_OrderedUnlessInfiniteQuartiles ==
    (StatisticsReturned /\ ~IsNullStats(statistics))
        => /\ QuartilesOrdered
           /\ FencesOrdered <=> ~(statistics.q1.k = "inf" /\ statistics.q1 = statistics.q3)

----------------------------------------------------------------------------
(* The claims about datasets of finite numbers, under SpecFinite *)

\* every cell of the listed columns is a finite number
FiniteDataset ==
    \A i \in DOMAIN data.items, col \in Range(columns.items) :
        IsFiniteNumber(Get(data.items[i], col))

\* the number of finite numeric cells in the numeric columns
FiniteCellCount ==
    Cardinality({<<i, col>> \in (DOMAIN data.items) \X Range(analysis.numericColumns) :
                    IsFiniteNumber(Get(data.items[i], col))})

\* q1, q3 and every value of the column between them are not anomalies, and
\* the anomalies of the column are fewer than its values
QuartilesNotAnomalous(col) ==
    LET st == analysis.columnStats[col]
    IN  /\ ~detectAnomaly(st.q1, st).isAnomaly
        /\ ~detectAnomaly(st.q3, st).isAnomaly
        /\ \A i \in DOMAIN data.items :
              LET v == Get(data.items[i], col)
              IN  (Le(st.q1, v) /\ Le(v, st.q3)) => ~detectAnomaly(v, st).isAnomaly
        /\ 0 <= analysis.anomalyCounts[col]
        /\ analysis.anomalyCounts[col] < st.count

\* C24 as stated: for every numeric column c of any dataset of finite numbers,
\* q1 and q3 of c and every value between them are not anomalous, so
\* 0 <= anomalyCounts[c] < columnStats[c].count, and totalAnomalies is strictly
\* less than the number of finite numeric cells in numeric columns.
C24_NotEveryValueAnomalous ==
    (AnalyzeReturned /\ FiniteDataset) =>
        /\ \A col \in Range(analysis.numericColumns) : QuartilesNotAnomalous(col)
        /\ analysis.totalAnomalies < FiniteCellCount

\* C24 amended: the same, the strict bound on totalAnomalies holding when the
\* dataset has a numeric column; with none, both numbers are 0.
C24_NotEveryValueAnomalousOfSomeColumn ==
    (AnalyzeReturned /\ FiniteDataset) =>
        /\ \A col \in Range(analysis.numericColumns) : QuartilesNotAnomalous(col)
        /\ analysis.numericColumns # <<>> => analysis.totalAnomalies < FiniteCellCount
        /\ analysis.numericColumns = <<>> => analysis.totalAnomalies = 0 /\ FiniteCellCount = 0

\* C24 happens: a column of five finite numbers with q1 = q3, of which one is
\* an anomaly
C24_Witness ==
    /\ AnalyzeReturned /\ FiniteDataset
    /\ Len(data.items) = 5
    /\ analysis.columnStats["a"].iqr = Fin(0)
    /\ analysis.anomalyCounts["a"] = 1 /\ analysis.totalAnomalies = 1

\* a cell of the analysed dataset is an anomaly, and its tooltip is made
AnomalyDescribed ==
    /\ fn = "analyzeDataset" /\ pc = "described"
    /\ FiniteDataset /\ anomaly.isAnomaly

\* the message says "above" only of a value greater than the column mean, and
\* "below" only of a value less than it
DirectionTruthful ==
    /\ Contains(tooltip, Text("above")) => Gt(value, stats.mean)
    /\ Contains(tooltip, Text("below")) => Lt(value, stats.mean)

\* the percentage of the message, its second part, is a numeral without a sign
PercentageNotNegative ==
    /\ tooltip[2].t = "number" /\ ~tooltip[2].neg
    /\ tooltip[2].s \notin {"-Infinity", "NaN"}

\* C25: for every dataset and every cell that the statistics of analyzeDataset
\* classify as an anomaly, the tooltip says "above average" only for a value
\* greater than the column mean and "below average" only for a value less than
\* it, and the percentage printed is non-negative whenever the mean is not 0.
C25_TooltipDirectionTruthful ==
    AnomalyDescribed =>
        /\ DirectionTruthful
        /\ stats.mean # Fin(0) => PercentageNotNegative

\* the word follows the side of the fences, not the side of the mean: "above"
\* is said of a value over the upper fence of its column and "below" of one
\* under the lower fence, and the percentage has the sign of the mean
C25_DirectionFollowsFences ==
    AnomalyDescribed =>
        /\ Contains(tooltip, Text("above")) <=> Gt(value, stats.upperBound)
        /\ Contains(tooltip, Text("below")) <=> Lt(value, stats.lowerBound)
        /\ Gt(stats.mean, Fin(0)) => PercentageNotNegative
        /\ Lt(stats.mean, Fin(0)) => ~PercentageNotNegative

----------------------------------------------------------------------------
(* The cells of all pages against the counts of the analysis, under SpecTable *)

\* the pages of the table under a sort configuration
Pages(sc) == [p \in 1 .. totalPages(data, sc) |-> paginatedData(data, sc, p)]

\* the class the render gives the cell of a row (lines 129-130)
ClassOfCell(row, col) ==
    getCellClass(getCellAnomalyInfo(showAnomalies, anomalyAnalysis, row, col))

\* the cells over all the pages: <<page, index of the row in the page, column,
\* row, class>>
CellsOfPages(sc) ==
    LET pages == Pages(sc)
    IN  UNION {{<<p, i, col, pages[p][i], ClassOfCell(pages[p][i], col)>> :
                   i \in DOMAIN pages[p], col \in Range(columns.items)} :
               p \in DOMAIN pages}

\* the cells of a column with an anomaly class, over all pages
ClassedCells(col) == {c \in CellsOfPages(sortConfig) : c[3] = col /\ c[5] # ""}

\* the classes of the rows' cells: <<column, row, class>>
ClassesOfRows(cells) == {<<c[3], c[4], c[5]>> : c \in cells}

\* the sort configuration of a table no header of which was clicked
Unsorted == [key |-> NoKey, direction |-> "asc"]

\* the positions of the data that hold the row
PositionsOf(row) == {i \in DOMAIN data.items : data.items[i] = row}

HighlightedTable == Mounted /\ showAnomalies /\ ~IsNullStats(anomalyAnalysis)

\* C26: with showAnomalies true, under every sort key, direction and page, the
\* number of rows over all pages whose cell in a column gets an anomaly class is
\* anomalyCounts of the column, their total over the columns is totalAnomalies,
\* the pages hold every row of the data as often as the data does, and a row's
\* cell has one class, the same as in the unsorted table.
C26_CellsAgreeWithCounts ==
    HighlightedTable =>
        LET cells == CellsOfPages(sortConfig)
            classes == ClassesOfRows(cells)
        IN  /\ \A col \in Range(columns.items) :
                  Cardinality({c \in cells : c[3] = col /\ c[5] # ""})
                      = IF col \in DOMAIN anomalyAnalysis.anomalyCounts
                        THEN anomalyAnalysis.anomalyCounts[col] ELSE 0
            /\ Cardinality({c \in cells : c[5] # ""}) = anomalyAnalysis.totalAnomalies
            /\ \A row \in Range(data.items), col \in Range(columns.items) :
                  Cardinality({c \in cells : c[3] = col /\ c[4] = row})
                      = Cardinality(PositionsOf(row))
            /\ \A t, u \in classes : (t[1] = u[1] /\ t[2] = u[2]) => t[3] = u[3]
            /\ ClassesOfRows(CellsOfPages(Unsorted)) = classes

\* C26 happens: the twelve rows sorted by a, descending, with page 2 on screen:
\* two of the three anomalies of a are on page 1 and one on page 2
C26_Witness ==
    /\ HighlightedTable
    /\ data.ref = "large" /\ sortConfig = [key |-> "a", direction |-> "desc"]
    /\ currentPage = 2
    /\ anomalyAnalysis.anomalyCounts["a"] = 3
    /\ Cardinality({c \in ClassedCells("a") : c[1] = 1}) = 2
    /\ Cardinality({c \in ClassedCells("a") : c[1] = 2}) = 1

----------------------------------------------------------------------------
(* The page of the table, under SpecTable *)

\* max(1, ceil(rows / 10))
LastPage ==
    IF totalPages(data, sortConfig) > 1 THEN totalPages(data, sortConfig) ELSE 1

PageInRange == 1 <= currentPage /\ currentPage <= LastPage

\* the page is in range, and a dataset with rows shows some of them
PageShowsRows == Mounted => (PageInRange /\ (data.items # <<>> => PageRows # <<>>))

\* sort clicks and toggles leave currentPage unchanged
SortAndToggleKeepPage ==
    (fn = "DataTable" /\ (sortConfig' # sortConfig \/ showAnomalies' # showAnomalies))
        => currentPage' = currentPage

\* C27: in every reachable state of a mounted DataTable, after any sequence of
\* Previous and Next clicks, header clicks, highlight toggles and replacements
\* of the data prop, 1 <= currentPage <= max(1, ceil(rows / 10)), so a dataset
\* with rows never shows an empty page; sort clicks and toggles leave
\* currentPage unchanged.
C27_PageAlwaysInRange == []PageShowsRows /\ [][SortAndToggleKeepPage]_vars

\* the clicks keep the page in range and sort clicks and toggles leave it
\* unchanged: only a step that replaces the props takes it out of range (the
\* last page is that of the rows, which such a step keeps)
C27_ClicksKeepPageInRange ==
    [][/\ SortAndToggleKeepPage
       /\ (Mounted /\ PageInRange /\ pc' = "rendered" /\ data' = data /\ columns' = columns)
              => (1 <= currentPage' /\ currentPage' <= LastPage)]_vars

----------------------------------------------------------------------------
(* The claims about DatasetPage, under SpecDatasetPage *)

\* the calls of loadDatasetDetails that still await a response
Pending ==
    {n \in DOMAIN datasetPage.loads : datasetPage.loads[n].stage # "settled"}
AllSettled == Pending = {}

\* the header, the summary and the data that the page renders (lines 150-223:
\* neither loading nor an error) belong to the id of the route
BelongsToRoute(held) == held \in {NoDataset, datasetPage.id}
ShowsCurrentDataset ==
    (~datasetPage.loading /\ ~datasetPage.error) =>
        /\ BelongsToRoute(datasetPage.dataset)
        /\ BelongsToRoute(datasetPage.datasetSummary)
        /\ BelongsToRoute(datasetPage.datasetData)

\* C28: once all requests have completed, the header, datasetSummary and
\* datasetData all belong to the id of the route, whatever the order in which
\* the responses arrived, and loading is never false while a request for the
\* current id is pending.
C28_ShowsOnlyCurrentDataset ==
    DatasetPageShown =>
        /\ AllSettled => ShowsCurrentDataset
        /\ (\E n \in Pending : datasetPage.loads[n].id = datasetPage.id)
               => datasetPage.loading

\* the same holds until the route id changes: for the one call of the first
\* render
C28_FirstLoadShowsItsDataset ==
    (DatasetPageShown /\ Len(datasetPage.loads) = 1) =>
        /\ AllSettled => ShowsCurrentDataset
        /\ Pending # {} => datasetPage.loading

----------------------------------------------------------------------------
(* The claims about deleting a dataset, under SpecDeletionFair *)

\* the step issues a deleteDataset request; the request it issues
RequestIssued == Len(deletion'.requests) = Len(deletion.requests) + 1
Issued == deletion'.requests[Len(deletion'.requests)]

\* the ConfirmModal of the page's own delete path is open for the dataset:
\* that of the Sidebar on DashboardPage, that of the page on DatasetPage
ModalOpenFor(id) ==
    IF deletion.page = "DashboardPage"
    THEN deletion.sidebarModal.show /\ deletion.sidebarModal.id = id
    ELSE deletion.pageModal.show /\ deletion.pageModal.id = id

\* a request is issued only from an open ConfirmModal of the same dataset
OnlyFromOpenModal == RequestIssued => ModalOpenFor(Issued.id)

\* a modal opens (the delete icon or button), or closes keeping its id (Cancel
\* or the backdrop)
Opens(modal, after) == ~modal.show /\ after.show
Cancelled(modal, after) == modal.show /\ ~after.show /\ after.id # NoDataset
NoRequestWithoutConfirm ==
    (\/ Opens(deletion.sidebarModal, deletion'.sidebarModal) /\ ~deletion.pageModal.show
     \/ Opens(deletion.pageModal, deletion'.pageModal) /\ ~deletion.sidebarModal.show
     \/ Cancelled(deletion.sidebarModal, deletion'.sidebarModal)
     \/ Cancelled(deletion.pageModal, deletion'.pageModal))
        => deletion'.requests = deletion.requests

\* the confirm button of the Sidebar's modal resets it, and a request of the
\* DatasetPage on screen that returns, deleted or failed, resets the page's
PageRequests ==
    {n \in DOMAIN deletion.requests :
        deletion.requests[n].origin = "DatasetPage" /\ deletion.requests[n].mounted}
ConfirmResetsModal ==
    /\ (deletion.sidebarModal.show /\ (RequestIssued \/ deletion'.pageModal.show))
           => deletion'.sidebarModal = ClosedModal
    /\ (Len(deletion'.requests) < Len(deletion.requests)
            /\ PageRequests = DOMAIN deletion.requests)
           => deletion'.pageModal = ClosedModal

DeletionStep ==
    DeletionShown => (OnlyFromOpenModal /\ NoRequestWithoutConfirm /\ ConfirmResetsModal)

\* C29: on DashboardPage and DatasetPage every deleteDataset(id) request is
\* issued by the confirm button of a ConfirmModal open for that id; the delete
\* icon alone, Cancel and the backdrop issue no request; and after a confirm or
\* a failed delete the modal is reset to closed with id null: the Sidebar's at
\* the click, DatasetPage's when the request returns, as every request does.
C29_DeleteOnlyAfterConfirm ==
    /\ [][DeletionStep]_vars
    /\ (DeletionShown /\ PageRequests # {}) ~> (deletion.pageModal = ClosedModal)

\* C29 happens: on the page of dataset 1 the delete icon of dataset 2 was
\* confirmed in the Sidebar's modal and in the page's, and the request is in
\* flight with the page's modal still open
C29_Witness ==
    /\ DeletionShown /\ deletion.page = "DatasetPage" /\ deletion.route = 1
    /\ deletion.sidebarModal = ClosedModal
    /\ deletion.pageModal = OpenModal(2, TRUE)
    /\ Len(deletion.requests) = 1
    /\ deletion.requests[1].id = 2 /\ deletion.requests[1].mounted

----------------------------------------------------------------------------
(* The claims about FileUploader, under SpecUploader *)

\* no request in flight is for a file whose name does not end in .csv
OnlyCsvUploaded ==
    \A n \in DOMAIN uploader.requests :
        EndsWith(uploader.requests[n].name, <<".", "c", "s", "v">>)

\* with no request in flight, uploading is false and progress is 0
IdleWhenSettled ==
    uploader.requests = <<>> => (~uploader.uploading /\ uploader.progress = 0)

\* C30: for any sequence of drops and selections and any order of completions
\* and failures, a file whose name does not end in .csv never starts an upload
\* request, at most one request is in flight at a time, uploading is true
\* exactly while a request is in flight, and after the last request settles
\* uploading is false and progress is 0.
C30_UploadingTracksRequest ==
    UploaderShown =>
        /\ OnlyCsvUploaded
        /\ Len(uploader.requests) <= 1
        /\ uploader.uploading <=> uploader.requests # <<>>
        /\ IdleWhenSettled

\* what holds of every state: only .csv files are uploaded, and the uploader is
\* idle when no request is in flight
C30_CsvOnlyAndIdleWhenSettled == UploaderShown => (OnlyCsvUploaded /\ IdleWhenSettled)

====
